---- MODULE Spec2Model ----
(***************************************************************************)
(* Signal-to-order execution pipeline of the Telegram/Bitget trading bot.  *)
(*                                                                         *)
(*   RiskManager     src/src/trading/risk_manager.py                       *)
(*   message pipeline   src/main.py, src/start_trading.py                  *)
(*   BitgetClient    src/src/trading/bitget_client.py                      *)
(*   retry_async     src/src/utils/helpers.py                              *)
(*   parsers         src/src/trading/signal_parser.py,                     *)
(*                   src/src/trading/optimized_signal_parser.py            *)
(*                                                                         *)
(* Money is counted in whole USDT and prices in whole ticks; the input     *)
(* sets are chosen so that every division of the code is exact.  The clock *)
(* counts units of 10 minutes.  Timestamps stored inside ledger and        *)
(* history records (created_at, closed_at, hold_time) are not modelled:    *)
(* no decision of the code reads them.                                     *)
(***************************************************************************)
EXTENDS Integers, Sequences, FiniteSets, TLC

\* None in a numeric field (prices and amounts are never negative)
Nil == 0 - 1

\* ------------------------------------------------------------------------
\* Input sets
\* ------------------------------------------------------------------------
Symbols == {"BTCUSDT", "ETHUSDT"}
Sides == {"buy", "sell"}

\* clock readings (10-minute units): 2 is inside the cooldown after 0,
\* 3 is exactly the cooldown, 144 is the first instant of the next UTC day
Times == {0, 2, 3, 144}

Balances == {0, 100, 60000}

\* The calls are explored in two families: "ledger" opens, reprices and
\* closes positions during the first trades of a day, "day" only opens
\* positions, up to the daily trade cap, stops and resets
Scenarios == {"ledger", "day"}

\* The program that runs the message pipeline: main.py in console mode, or
\* start_trading.py
Programs == {"main", "start_trading"}

\* the price field of the data of a place-order response: absent (0), or set
ResponsePrices == {0, 2}

\* ------------------------------------------------------------------------
\* Bounds of the exploration
\* ------------------------------------------------------------------------
MaxHistory == 2
MaxLedgerTrades == 2
MaxTradeCount == 51
MaxHandlers == 2
MaxRequests == 21
MaxSecond == 2
\* first-take-profit messages handled in one run
MaxRegistrations == 2
\* signals put into the context, and searches of it, in one run
MaxContextSignals == 3
MaxSearches == 2
\* messages of one signal
MaxMessages == 3

\* signals recorded in the context in the scenario that fills it
MaxRingAdds == 12

\* tasks created for price_monitor_loop in the scenario of starts and stops
MaxTasks == 3

\* ------------------------------------------------------------------------
\* Program constants
\* ------------------------------------------------------------------------
max_position_size == 1000
default_trade_amount == 2
DEFAULT_LEVERAGE == 20
risk_percentage == 2
max_trades_per_day == 50
max_consecutive_losses == 5
\* timedelta(minutes=30), in clock units of 10 minutes
cooldown_period == 30 \div 10
\* one UTC day, in clock units of 10 minutes
DayLength == 24 * 6
max_daily_loss == (max_position_size * 5) \div 100
\* @retry_async(max_retries=3, delay=1.0) on _make_request
max_retries == 3
retry_delay == 1
\* USE_TRADER_SIGNALS_FOR_TP_SL
use_trader_signals_for_tp_sl == TRUE
\* BitgetClient.rate_limit_per_second
rate_limit_per_second == 10

\* int(time.time()): the wall-clock seconds of the exploration; 0 is the
\* initial last_request_time and no reading of the clock
Seconds == 1..MaxSecond

\* DEFAULT_LEVERAGE as the environment may set it
ConfigLeverages == {DEFAULT_LEVERAGE, 200}

VARIABLES
    scenario,            \* which family of calls the environment makes
    stopped,             \* emergency_stop was called, and reset_risk_state not since
    now,                 \* datetime.now(timezone.utc)
    daily_pnl,
    trade_count_today,
    consecutive_losses,
    last_reset_date,
    positions,
    trade_history,
    last_trade_time,
    ret,                 \* value returned by the last RiskManager call
    default_leverage,    \* config.trading.default_leverage
    handlers,            \* the message handlers and where each one stands
    db,                  \* trading_signals rows: signal id -> status, error_message
    exchange_log,        \* place-order calls issued to the exchange, in order
    executed,            \* the signals passed to execute_signal
    ex,                  \* one call of BitgetClient.execute_signal
    req,                 \* the _make_request call in flight, retries included
    exchange,            \* what the exchange accepted, in order
    rl,                  \* the rate limiter of the client and its callers
    take_profit_targets, \* TradingBotGUI.take_profit_targets, in insertion order
    price_monitoring_active,
    mon,                 \* the task running price_monitor_loop
    hist,                \* what the monitor has done so far
    recent_signals,      \* TradingBotGUI.recent_signals
    matched,             \* the last answer of find_matching_signal_for_take_profit
    parse,               \* one text, and what the parsers made of it
    tasks                \* the tasks created for price_monitor_loop, and price_monitor_task

riskVars == <<daily_pnl, trade_count_today, consecutive_losses, last_reset_date,
              positions, trade_history, last_trade_time>>

pipeVars == <<default_leverage, handlers, db, exchange_log, executed>>

clientVars == <<ex, req, exchange, rl>>

guiVars == <<take_profit_targets, price_monitoring_active, mon, hist, recent_signals, matched>>

parserVars == <<parse>>

taskVars == <<tasks>>

\* everything the RiskManager operations leave alone
nonRiskVars == <<pipeVars, clientVars, guiVars, parserVars, taskVars>>

vars == <<scenario, stopped, now, daily_pnl, trade_count_today, consecutive_losses, last_reset_date,
          positions, trade_history, last_trade_time, ret, pipeVars, clientVars, guiVars,
          parserVars, taskVars>>

\* ------------------------------------------------------------------------
\* Helpers
\* ------------------------------------------------------------------------
Abs(x) == IF x < 0 THEN 0 - x ELSE x

Min(a, b) == IF a <= b THEN a ELSE b

DateOf(t) == t \div DayLength

\* dict[k] = v and del dict[k]
Put(d, k, v) == [x \in (DOMAIN d) \cup {k} |-> IF x = k THEN v ELSE d[x]]

Del(d, k) == [x \in (DOMAIN d) \ {k} |-> d[x]]

RECURSIVE SumOver(_, _)
SumOver(S, f) ==
    IF S = {} THEN 0
    ELSE LET x == CHOOSE y \in S : TRUE IN f[x] + SumOver(S \ {x}, f)

\* TradingSignal as the risk manager and the execution client read it
Signal(sym, side, type, amount, price, sl, tp, lev) ==
    [symbol |-> sym, side |-> side, signal_type |-> type, amount |-> amount,
     price |-> price, stop_loss |-> sl, take_profit |-> tp, leverage |-> lev]

\* signals handed to the risk manager: no amount, an amount within the
\* position limit (below and above the small balance), an amount above the
\* limit, and one with price and stop-loss
RiskSignals ==
    { Signal(s, d, "market", Nil, Nil, Nil, Nil, 20) : s \in Symbols, d \in Sides }
    \cup { Signal("ETHUSDT", "sell", "market", 5, Nil, Nil, Nil, 20),
            Signal("ETHUSDT", "sell", "market", 200, Nil, Nil, Nil, 20),
            Signal("BTCUSDT", "buy", "market", 2000, Nil, Nil, Nil, 20),
            Signal("BTCUSDT", "buy", "limit", Nil, 2, 6, Nil, 20) }

\* ------------------------------------------------------------------------
\* RiskManager: pure parts
\* ------------------------------------------------------------------------
\* helpers.calculate_position_size
calculate_position_size(balance, riskPct, entry_price, stop_loss_price) ==
    IF stop_loss_price = Nil \/ stop_loss_price = 0
    THEN (balance * riskPct) \div 100
    ELSE LET risk_amount == (balance * riskPct) \div 100
             dist == Abs(entry_price - stop_loss_price)
         IN IF dist = 0
            THEN (balance * riskPct) \div 100
            ELSE Min((risk_amount * entry_price) \div dist, balance \div 2)

\* RiskManager._calculate_suggested_amount
_calculate_suggested_amount(balance, signal) ==
    LET risk_amount == (balance * risk_percentage) \div 100
    IN IF signal.stop_loss # Nil /\ signal.stop_loss # 0
          /\ signal.price # Nil /\ signal.price # 0
       THEN Min(calculate_position_size(balance, risk_percentage,
                                        signal.price, signal.stop_loss),
                risk_amount)
       ELSE risk_amount

\* _in_cooldown with the window closed at its end (<= for <)
_in_cooldown_closed(ltt, t) ==
    IF ltt = Nil THEN FALSE ELSE t - ltt <= cooldown_period

\* RiskManager._in_cooldown
_in_cooldown(ltt, t) ==
    IF ltt = Nil THEN FALSE ELSE t - ltt < cooldown_period

\* RiskManager._determine_risk_level; a ratio r = n / balance is compared
\* with a threshold by cross-multiplication (balance > 0)
_determine_risk_level(balance, total_pnl, used_margin, losses) ==
    LET pos == balance > 0
        mGt(n, d) == pos /\ used_margin * d > n * balance      \* margin_ratio > n/d
        pGt(n, d) == pos /\ Abs(total_pnl) * d > n * balance   \* pnl_ratio > n/d
    IN IF mGt(8, 10) \/ pGt(2, 10) \/ losses >= 4 THEN "critical"
       ELSE IF mGt(6, 10) \/ pGt(15, 100) \/ losses >= 3 THEN "high"
       ELSE IF mGt(4, 10) \/ pGt(1, 10) \/ losses >= 2 THEN "medium"
       ELSE "low"

\* RiskManager._calculate_risk_metrics, the risk level it reports
RiskLevelOf(balance, pos, losses) ==
    LET open == DOMAIN pos
        total_pnl == SumOver(open, [s \in open |-> pos[s].pnl])
        used_margin == SumOver(open, [s \in open |-> pos[s].size])
    IN _determine_risk_level(balance, total_pnl, used_margin, losses)

\* _reset_daily_counters without the date comparison
_reset_daily_counters_always(cnt, pnl, lrd, t) == <<0, 0, DateOf(t)>>

\* RiskManager._reset_daily_counters: the counters, the daily P&L and the
\* reset date it leaves
_reset_daily_counters(cnt, pnl, lrd, t) ==
    IF DateOf(t) # lrd THEN <<0, 0, DateOf(t)>> ELSE <<cnt, pnl, lrd>>

\* no value returned (the operation returns None)
NoRet == [op |-> "none", ok |-> FALSE, reason |-> "none", amount |-> Nil]

Rejected(reason) == [op |-> "check", ok |-> FALSE, reason |-> reason, amount |-> Nil]

\* RiskManager.check_signal_risk after _reset_daily_counters: the chain of
\* early returns, on the state the reset left
CheckDecision(signal, current_balance, cnt, pnl, losses, ltt, t, pos) ==
    IF current_balance <= 0 THEN Rejected("balance")
    ELSE IF cnt >= max_trades_per_day THEN Rejected("trade_count")
    ELSE IF pnl < 0 - max_daily_loss THEN Rejected("daily_loss")
    ELSE IF losses >= max_consecutive_losses THEN Rejected("consecutive_losses")
    ELSE IF _in_cooldown(ltt, t) THEN Rejected("cooldown")
    ELSE LET suggested_amount ==
                 IF signal.amount # Nil /\ signal.amount # 0
                 THEN signal.amount
                 ELSE _calculate_suggested_amount(current_balance, signal)
         IN IF suggested_amount > max_position_size THEN Rejected("position_size")
            ELSE IF signal.symbol \in DOMAIN pos
                    /\ pos[signal.symbol].side = signal.side
                 THEN Rejected("same_direction")
            ELSE IF RiskLevelOf(current_balance, pos, losses) = "critical"
                 THEN [op |-> "check", ok |-> FALSE, reason |-> "risk_level",
                       amount |-> suggested_amount]
            ELSE [op |-> "check", ok |-> TRUE, reason |-> "ok",
                  amount |-> suggested_amount]

\* ------------------------------------------------------------------------
\* Messages and parsers
\* ------------------------------------------------------------------------
\* A Telegram message, by the parts the patterns look for: base is the text
\* "#sym 市價多/空" (dir "duo" for 多, "kong" for 空); tp is the price of a
\* "第一止盈: tp" line and sl that of a "止损: sl" line (Nil: absent);
\* adjacent says that these lines follow the direction character with
\* nothing in between
Msg(base, sym, dir, tp, sl, adjacent) ==
    [base |-> base, sym |-> sym, dir |-> dir, tp |-> tp, sl |-> sl,
     adjacent |-> adjacent]

PipeMessages ==
    { Msg(TRUE, "BTC", "duo", Nil, Nil, FALSE),
      Msg(TRUE, "ETH", "kong", 1, 2, TRUE),
      Msg(TRUE, "BTC", "duo", 1, 2, TRUE),
      Msg(TRUE, "BTC", "duo", 1, 2, FALSE),
      Msg(TRUE, "XX", "duo", 3, Nil, FALSE),
      Msg(FALSE, "", "", Nil, Nil, FALSE) }

\* the tokens of the model that are on the whitelist of helpers.validate_symbol
CommonSymbols == {"BTC", "ETH"}

\* helpers.validate_symbol, given the token without its USDT suffix
validate_symbol(tok) == tok \in CommonSymbols

\* _normalize_symbol of both parsers: the alias table, else the USDT suffix
_normalize_symbol(tok) ==
    CASE tok = "BTC" -> "BTCUSDT"
      [] tok = "ETH" -> "ETHUSDT"
      [] tok = "XX" -> "XXUSDT"
      [] tok = "TREE" -> "TREEUSDT"
      [] OTHER -> ""

SideOf(dir) == IF dir = "duo" THEN "buy" ELSE "sell"

\* parse_signal returned None
NoSignal == Signal("", "", "none", Nil, Nil, Nil, Nil, 0)

\* helpers.parse_trading_signal, as TelegramMonitor._handle_new_message
\* uses it: is the message a signal at all
parse_trading_signal(m) == m.base

\* SignalParser.parse_signal: the patterns in list order.  The basic market
\* pattern comes first and takes every message with the base text; when it
\* refuses the symbol, the other base patterns refuse it too and the
\* first-take-profit pattern is the only one left
SignalParser_parse_signal(m, lev) ==
    IF m.base /\ validate_symbol(m.sym)
    THEN Signal(_normalize_symbol(m.sym), SideOf(m.dir), "market",
                Nil, Nil, Nil, Nil, lev)
    ELSE IF m.tp # Nil /\ m.tp > 0
    THEN Signal(IF m.base THEN _normalize_symbol(m.sym) ELSE "", "buy",
                "first_take_profit", Nil, Nil, Nil, m.tp, 1)
    ELSE NoSignal

\* OptimizedSignalParser.parse_signal: the patterns by descending
\* confidence.  complete_signal takes every message with the base text; its
\* optional groups capture the take-profit and the stop-loss only where
\* they follow at once, and the take-profit levels are then collected from
\* the whole message.  The patterns for lone lines return no signal.  The
\* signal type is a member of this module's own SignalType enum
OptimizedSignalParser_parse_signal(m, lev) ==
    IF m.base
    THEN Signal(_normalize_symbol(m.sym), SideOf(m.dir), "optimized.market",
                default_trade_amount, Nil,
                IF m.adjacent THEN m.sl ELSE Nil,
                IF m.adjacent \/ (m.tp # Nil /\ m.tp # 0) THEN m.tp ELSE Nil,
                lev)
    ELSE NoSignal

\* validate_signal without the comparison of take-profit and stop-loss
OptimizedSignalParser_validate_signal_unordered(signal) ==
    /\ signal.symbol # ""
    /\ ~(signal.price # Nil /\ signal.price <= 0)
    /\ ~(signal.stop_loss # Nil /\ signal.stop_loss <= 0)
    /\ ~(signal.take_profit # Nil /\ signal.take_profit <= 0)
    /\ ~(signal.leverage <= 0 \/ signal.leverage > 125)

\* OptimizedSignalParser.validate_signal
OptimizedSignalParser_validate_signal(signal) ==
    /\ signal.symbol # ""
    /\ ~(signal.price # Nil /\ signal.price <= 0)
    /\ ~(signal.stop_loss # Nil /\ signal.stop_loss <= 0)
    /\ ~(signal.take_profit # Nil /\ signal.take_profit <= 0)
    /\ ~(signal.leverage <= 0 \/ signal.leverage > 125)
    /\ (signal.stop_loss # Nil /\ signal.stop_loss # 0
        /\ signal.take_profit # Nil /\ signal.take_profit # 0)
       => IF signal.side = "buy"
          THEN ~(signal.take_profit <= signal.stop_loss)
          ELSE ~(signal.take_profit >= signal.stop_loss)

\* Config.validate_config, the check of the default leverage
validate_config(lev) == ~(lev < 1 \/ lev > 125)

\* ------------------------------------------------------------------------
\* Message handlers
\* ------------------------------------------------------------------------
HandlerIds == 1..MaxHandlers

\* a handler that has not been given a message
IdleHandler == [pc |-> "idle", signal |-> NoSignal, outcome |-> "none"]

\* what one call of execute_signal can come to, seen from the handler: was
\* a place-order call issued, did the exchange accept the order, did the
\* call return success, and the price field of the order data it returned
\* (0: no such field).  Only the two members of signal_parser.SignalType
\* get as far as placing an order
ExecOutcomes(signal) ==
    {[issued |-> FALSE, accepted |-> FALSE, success |-> FALSE, price |-> 0]}
    \cup IF signal.signal_type = "market"
            \/ (signal.signal_type = "limit" /\ signal.price # Nil /\ signal.price # 0)
         THEN {[issued |-> TRUE, accepted |-> FALSE, success |-> FALSE, price |-> 0],
               [issued |-> TRUE, accepted |-> TRUE, success |-> FALSE, price |-> 0]}
              \cup {[issued |-> TRUE, accepted |-> TRUE, success |-> TRUE, price |-> p] :
                       p \in ResponsePrices}
         ELSE {}

\* ------------------------------------------------------------------------
\* BitgetClient: requests
\* ------------------------------------------------------------------------
\* how one HTTP attempt ends: a response with code '00000', a well-formed
\* response with another code, a status other than 200, or no response
Responses == {"ok", "api_error", "http_error", "timeout"}

\* the requests of execute_signal that place an order, and what they place
OrderKinds == {"open", "close_sl", "close_tp", "plan"}

\* no request in flight
IdleReq == [kind |-> "none", attempt |-> 0, state |-> "idle", errors |-> <<>>,
            slept |-> <<>>, last_exception |-> "none", accepted |-> FALSE,
            client_order_id |-> <<>>, sent |-> <<>>, accepted_ids |-> {}]

\* generate_order_id: 12 hex digits of the md5 of symbol, side and the
\* time of the call; equal arguments give equal ids, and different ones
\* are taken to give different ids.  The kind of the order stands for
\* symbol and side
generate_order_id(kind, timestamp) == <<kind, timestamp>>

\* _make_request is called: the wrapper of retry_async starts with attempt
\* 0.  The order data, the clientOrderId in it, are built by the caller
\* before the call
NewReq(kind) == [kind |-> kind, attempt |-> 0, state |-> "sending", errors |-> <<>>,
                 slept |-> <<>>, last_exception |-> "none", accepted |-> FALSE,
                 client_order_id |-> IF kind \in OrderKinds
                                     THEN generate_order_id(kind, now) ELSE <<>>,
                 sent |-> <<>>, accepted_ids |-> {}]

\* the last attempt of the wrapper, had the loop one more round
LastAttempt_more == max_retries + 1

\* retry_async: range(max_retries + 1) ends with attempt max_retries
LastAttempt == max_retries

\* retry_async sleeping 2 seconds before every further attempt
RetryOrRaise_fixed_delay(r) ==
    IF r.attempt < LastAttempt
    THEN [r EXCEPT !.state = "sleeping", !.slept = Append(@, 2)]
    ELSE [r EXCEPT !.state = "raised"]

\* retry_async, the answer to any exception of the attempt: sleep
\* delay * (attempt + 1) and go round again, or raise after the last attempt
RetryOrRaise(r) ==
    IF r.attempt < LastAttempt
    THEN [r EXCEPT !.state = "sleeping",
                   !.slept = Append(@, retry_delay * (r.attempt + 1))]
    ELSE [r EXCEPT !.state = "raised"]

\* the clientOrderId of an attempt, were the order data built again at
\* every attempt
AttemptOrderId_per_attempt(r) == <<r.client_order_id, r.attempt>>

\* the clientOrderId in the body of an attempt: json.dumps of the data
\* that the wrapper passes unchanged to every attempt
AttemptOrderId(r) == r.client_order_id

\* one HTTP attempt of _make_request.  The exchange carries the request out
\* when it answers '00000', does not when it answers with an error, and
\* may or may not have when no response arrives.  The exchange accepts one
\* order for a clientOrderId and no second one for the same id
HttpAttempt(resp, carried) ==
    /\ req.state = "sending"
    /\ resp = "ok" => carried
    /\ resp \in {"api_error", "http_error"} => ~carried
    /\ LET id == AttemptOrderId(req)
           placed == carried /\ req.kind \in OrderKinds /\ id \notin req.accepted_ids
           r1 == [req EXCEPT !.accepted = @ \/ placed,
                             !.sent = Append(@, id),
                             !.accepted_ids = IF placed THEN @ \cup {id} ELSE @]
       IN /\ exchange' = IF placed THEN Append(exchange, req.kind) ELSE exchange
          /\ req' = IF resp = "ok"
                    THEN [r1 EXCEPT !.state = "returned"]
                    ELSE RetryOrRaise([r1 EXCEPT !.errors = Append(@, resp),
                                                 !.last_exception = resp])
    /\ UNCHANGED <<scenario, stopped, now, riskVars, ret, pipeVars, ex, rl, guiVars, parserVars, taskVars>>

\* asyncio.sleep of the wrapper returns: the next round of the loop
RetryWake ==
    /\ req.state = "sleeping"
    /\ req' = [req EXCEPT !.state = "sending", !.attempt = @ + 1]
    /\ UNCHANGED <<scenario, stopped, now, riskVars, ret, pipeVars, ex, exchange, rl, guiVars, parserVars, taskVars>>

\* ------------------------------------------------------------------------
\* BitgetClient.execute_signal: data
\* ------------------------------------------------------------------------
\* the signals execute_signal is called with: a plain market signal, one
\* with stop-loss and take-profit, a limit signal, and a market signal of
\* OptimizedSignalParser
ExecSignals ==
    { Signal("BTCUSDT", "buy", "market", Nil, Nil, Nil, Nil, 20),
      Signal("BTCUSDT", "buy", "market", Nil, Nil, 1, 3, 20),
      Signal("BTCUSDT", "sell", "limit", Nil, 2, Nil, Nil, 20),
      Signal("BTCUSDT", "buy", "optimized.market", 2, Nil, Nil, Nil, 20),
      Signal("BTCUSDT", "buy", "market", 5, Nil, Nil, Nil, 10) }

\* available balance in the account data
ExecBalances == {0, 1, 50}

\* last price in the ticker data (0: none)
TickerPrices == {0, 2, 100}

\* numbers that the code holds as floats are fractions here
Frac(n, d) == [num |-> n, den |-> d]

FracDiv(a, b) == Frac(a.num * b.den, a.den * b.num)

FracMul(a, b) == Frac(a.num * b.num, a.den * b.den)

\* a number with 8 decimals: whole part and hundred-millionths
Decimal8(whole, frac8) == [whole |-> whole, frac8 |-> frac8]

NoSize == Frac(0, 1)

NoClose == Decimal8(0 - 1, 0)

\* k more decimals of r / d by long division: the digits and the remainder
RECURSIVE Decimals(_, _, _, _)
Decimals(r, d, k, acc) ==
    IF k = 0 THEN [digits |-> acc, rest |-> r]
    ELSE Decimals((r * 10) % d, d, k - 1, acc * 10 + (r * 10) \div d)

\* round(x, 8) of a number that is not negative, a tie going to the even
\* neighbour
Round8(x) ==
    LET whole == x.num \div x.den
        l == Decimals(x.num % x.den, x.den, 8, 0)
        up == \/ 2 * l.rest > x.den
              \/ (2 * l.rest = x.den /\ l.digits % 2 = 1)
        frac8 == IF up THEN l.digits + 1 ELSE l.digits
    IN IF frac8 = 100000000 THEN Decimal8(whole + 1, 0) ELSE Decimal8(whole, frac8)

\* margin_amount of execute_signal, the balance not looked at
margin_amount_uncapped(signal, balance) ==
    IF signal.amount \in {Nil, 0} THEN default_trade_amount ELSE signal.amount

\* margin_amount of execute_signal: the amount of the signal or the
\* configured one, and no more than the balance
margin_amount(signal, balance) ==
    LET amount == IF signal.amount \in {Nil, 0} THEN default_trade_amount
                  ELSE signal.amount
    IN IF amount > balance THEN balance ELSE amount

\* leverage of execute_signal
leverage_of(signal) ==
    IF signal.leverage \in {Nil, 0} THEN DEFAULT_LEVERAGE ELSE signal.leverage

\* contract_size = margin_amount / (current_price / leverage)
contract_size(signal, balance, current_price) ==
    FracDiv(Frac(margin_amount(signal, balance), 1),
            FracDiv(Frac(current_price, 1), Frac(leverage_of(signal), 1)))

\* close_size of close_position_partial
close_size(current_size, percentage) ==
    Round8(FracMul(current_size, FracDiv(Frac(percentage, 1), Frac(100, 1))))

FracAdd(a, b) == Frac(a.num * b.den + b.num * a.den, a.den * b.den)

FracSub(a, b) == Frac(a.num * b.den - b.num * a.den, a.den * b.den)

\* a < b, for fractions with positive denominators
FracLess(a, b) == a.num * b.den < b.num * a.den

\* round(x, 4) as a fraction over 10000: the magnitude is rounded, a tie
\* going to the even neighbour, and the sign is kept
RoundTo4(x) ==
    LET neg == x.num < 0
        n == IF neg THEN 0 - x.num ELSE x.num
        l == Decimals(n % x.den, x.den, 4, 0)
        up == \/ 2 * l.rest > x.den
              \/ (2 * l.rest = x.den /\ l.digits % 2 = 1)
        m == (n \div x.den) * 10000 + l.digits + (IF up THEN 1 ELSE 0)
    IN Frac(IF neg THEN 0 - m ELSE m, 10000)

\* loss_amount of execute_signal: the loss in USDT at which the automatic
\* stop closes the position
loss_amount == 7

\* stop_loss_price of execute_signal: the fill price less (buy) or plus
\* (sell) price_diff = loss_amount / (filled_quantity / leverage), rounded
\* to 4 decimals there and again in set_auto_stop_loss
stop_loss_price(side, filled_price, filled_quantity, leverage) ==
    LET price_diff == FracDiv(Frac(loss_amount, 1),
                              FracDiv(filled_quantity, Frac(leverage, 1)))
    IN RoundTo4(RoundTo4(IF side = "buy" THEN FracSub(filled_price, price_diff)
                         ELSE FracAdd(filled_price, price_diff)))

\* the position that get_positions returns after the order: the field that
\* carries its size, if any
PositionFields == {"total", "size", "none"}

\* the data of an order-status response: a filled order, an order not
\* filled, data of another shape than the dict the code reads
OrderStatuses == {"filled", "new", "malformed"}

\* no call of execute_signal
IdleExec == [pc |-> "idle", signal |-> NoSignal, requests |-> <<>>, order |-> FALSE,
             stop_loss_order |-> FALSE, take_profit_order |-> FALSE,
             stop_tried |-> FALSE, auto_stop_loss_order |-> FALSE,
             result |-> "none", balance |-> 0, current_price |-> 0,
             contract_size |-> NoSize, close_size |-> NoClose,
             filled_price |-> NoSize, trigger_price |-> NoSize]

\* ------------------------------------------------------------------------
\* Initial state
\* ------------------------------------------------------------------------
\* RiskManager.__init__
InitRisk ==
    /\ now = 0
    /\ stopped = FALSE
    /\ daily_pnl = 0
    /\ trade_count_today = 0
    /\ consecutive_losses = 0
    /\ last_reset_date = DateOf(0)
    /\ positions = <<>>
    /\ trade_history = <<>>
    /\ last_trade_time = Nil
    /\ ret = NoRet

\* no message received yet, nothing stored, nothing sent to the exchange
InitPipe ==
    /\ handlers = [h \in HandlerIds |-> IdleHandler]
    /\ db = <<>>
    /\ exchange_log = <<>>
    /\ executed = {}

\* BitgetClient.__init__; no call of execute_signal yet
InitClient ==
    /\ ex = IdleExec
    /\ req = IdleReq
    /\ exchange = <<>>
    /\ rl = [sec |-> 1, request_count |-> 0, last_request_time |-> 0, calls |-> 0,
             sleeping |-> [s \in Seconds |-> 0], passed |-> [s \in Seconds |-> 0]]

\* ------------------------------------------------------------------------
\* TradingBotGUI: take-profit targets and the price monitor
\* ------------------------------------------------------------------------
\* symbols of the positions the account can hold, as the exchange names them
MonSymbols == {"BTCUSDT_UMCBL", "ETHUSDT_UMCBL"}

\* holdSide of a position
HoldSides == {"long", "short"}

\* prices that first-take-profit messages name, marketPrice and
\* averageOpenPrice values that positions carry
TargetPrices == {3, 4}

MarketPrices == {3, 4}

AverageOpenPrices == {0, 1, 4}

\* attempts of execute_first_take_profit_strategy to set the break-even stop
break_even_max_retries == 3

\* one value of take_profit_targets; closed remembers that the partial
\* close of this target went through
Target(symbol, price, side) ==
    [symbol |-> symbol, price |-> price, side |-> side, executed |-> FALSE,
     closed |-> FALSE]

NoTarget == Target("none", 0, "none")

\* take_profit_targets is a dict: a sequence of values in insertion order,
\* one for each key
Keys(d) == {d[i].symbol : i \in DOMAIN d}

IndexOf(d, symbol) == CHOOSE i \in DOMAIN d : d[i].symbol = symbol

\* d[symbol] = t, every registration adding an entry
SetItem_appending(d, t) == Append(d, t)

\* d[symbol] = t: a key already there keeps its place and gets the new value
SetItem(d, t) ==
    IF t.symbol \in Keys(d) THEN [d EXCEPT ![IndexOf(d, t.symbol)] = t]
    ELSE Append(d, t)

\* del d[symbol] for the symbols that are keys
DelItems(d, symbols) == SelectSeq(d, LAMBDA t : t.symbol \notin symbols)

\* the dict comprehension that ends a cycle
PruneExecuted(d) == SelectSeq(d, LAMBDA t : ~t.executed)

\* what get_positions(symbol) gives its caller: [] after an exception in
\* the request, [] when the account holds no such position, a position
\* whose averageOpenPrice float() does not take, or the position
PositionAnswers ==
    {[kind |-> k, averageOpenPrice |-> 0, holdSide |-> "none"] :
        k \in {"error", "absent", "malformed"}}
    \cup {[kind |-> "position", averageOpenPrice |-> e, holdSide |-> s] :
             e \in AverageOpenPrices, s \in HoldSides}

\* no monitor task
IdleMonitor ==
    [pc |-> "none", sweep_list |-> <<>>, i |-> 0, invalid |-> {}, failed |-> {},
     di_used |-> 0, target_info |-> NoTarget, stale |-> FALSE, retry |-> 0,
     entry_price |-> 0, at |-> "none", error |-> "none"]

NoCheck == [side |-> "none", current_price |-> 0, target_price |-> 0, triggered |-> FALSE]

NoSweep == [answer |-> [kind |-> "none", averageOpenPrice |-> 0, holdSide |-> "none"],
            target_price |-> 0, invalid |-> FALSE]

\* no break-even stop placed
NoStop == [side |-> "none", size |-> 0, triggerPrice |-> 0, entry_price |-> 0,
           holdSide |-> "none", before |-> 0]

\* the last registration, the last comparison of a price with a target, the
\* last answer of the sanity sweep, whether the sweep has removed a target
\* whose position could not be fetched, and, until the loop wakes or asks
\* for the next price, the calls of the last run of
\* execute_first_take_profit_strategy with their outcomes and the
\* break-even stop the exchange accepted in it
NoHistory ==
    [registrations |-> 0, registered |-> NoTarget, last_check |-> NoCheck,
     last_sweep |-> NoSweep, removed_on_error |-> FALSE, sequence |-> <<>>,
     last_stop |-> NoStop]

\* the prices of the monitor count in units of 0.000025, a quarter of the
\* step that round(x, 4) keeps (no entry price of the model is half-way
\* between two steps)
PriceScale == 4

\* round(entry_price, 4)
Round4(price) == PriceScale * ((price + PriceScale \div 2) \div PriceScale)

\* the size of the position before the partial close, as the exchange
\* reports it
PositionTotals == {4}

\* what is left of a position after close_position_partial(symbol, 50)
Remaining(total) == total - (total * 50) \div 100

\* the order data of set_break_even_stop_loss for the position that
\* get_positions reports
set_break_even_stop_loss(holdSide, current_size, entry_price) ==
    [side |-> IF holdSide = "long" THEN "close_long" ELSE "close_short",
     size |-> current_size, triggerPrice |-> Round4(entry_price)]

\* the comparison of price_monitor_loop, the target itself left out
should_execute_strict(side, current_price, target_price) ==
    \/ (side = "long" /\ current_price > target_price)
    \/ (side = "short" /\ current_price < target_price)

\* the comparison of price_monitor_loop
should_execute(side, current_price, target_price) ==
    \/ (side = "long" /\ current_price >= target_price)
    \/ (side = "short" /\ current_price <= target_price)

\* is_valid of emergency_cleanup_invalid_price_targets, for entry_price > 0;
\* (target - entry) / entry > 2.0 is target - entry > 2 * entry
is_valid(side, entry_price, target_price) ==
    IF side = "long"
    THEN ~(target_price <= entry_price) /\ ~(target_price - entry_price > 2 * entry_price)
    ELSE IF side = "short"
    THEN ~(target_price >= entry_price) /\ ~(entry_price - target_price > 2 * entry_price)
    ELSE TRUE

\* the sweep puts the symbol on invalid_targets, the direction not looked at
IsInvalidTarget_undirected(answer, target_price) ==
    \/ answer.kind # "position"
    \/ answer.averageOpenPrice <= 0
    \/ Abs(target_price - answer.averageOpenPrice) > 2 * answer.averageOpenPrice

\* the sweep puts the symbol on invalid_targets
IsInvalidTarget(answer, target_price) ==
    \/ answer.kind # "position"
    \/ answer.averageOpenPrice <= 0
    \/ ~is_valid(answer.holdSide, answer.averageOpenPrice, target_price)

\* ------------------------------------------------------------------------
\* TradingBotGUI: the context of recent signals
\* ------------------------------------------------------------------------
\* titles of the chats the bot listens to, symbols of the signals, and
\* readings of datetime.now() in minutes
SourceGroups == {"group_a", "group_b"}

ContextSymbols == {"BTCUSDT", "ETHUSDT"}

ContextTimes == {0, 1, 5, 6}

max_context_messages == 10

\* timedelta(minutes=5)
context_window == 5

SignalContext(symbol, source_group, timestamp) ==
    [symbol |-> symbol, source_group |-> source_group, timestamp |-> timestamp]

NoContext == SignalContext("none", "none", 0)

\* no search made yet
NoSearch == [n |-> 0, source_group |-> "none", result |-> NoContext]

\* add_signal_to_context keeping the first max_context_messages
add_signal_to_context_keep_first(signals, symbol, source_group, timestamp) ==
    LET l == Append(signals, SignalContext(symbol, source_group, timestamp))
    IN IF Len(l) > max_context_messages
       THEN SubSeq(l, 1, max_context_messages)
       ELSE l

\* add_signal_to_context: append, keep the last max_context_messages
add_signal_to_context(signals, symbol, source_group, timestamp) ==
    LET l == Append(signals, SignalContext(symbol, source_group, timestamp))
    IN IF Len(l) > max_context_messages
       THEN SubSeq(l, Len(l) - max_context_messages + 1, Len(l))
       ELSE l

\* priority of find_matching_signal_for_take_profit, the other groups first
priority_cross_first(signal_ctx, source_group) ==
    IF signal_ctx.source_group = source_group THEN 1 ELSE 2

\* priority of find_matching_signal_for_take_profit
priority(signal_ctx, source_group) ==
    IF signal_ctx.source_group = source_group THEN 2 ELSE 1

\* find_matching_signal_for_take_profit: the entries later than the cutoff,
\* latest entry first, sorted by (priority, timestamp) with reverse=True;
\* the sort keeps entries of equal key in the order it found them, so that
\* the first of the sorted list is the entry of greatest key that comes
\* last in recent_signals
find_matching_signal_for_take_profit(signals, current_time, source_group) ==
    LET cutoff_time == current_time - context_window
        matching == {i \in DOMAIN signals : signals[i].timestamp > cutoff_time}
        Before(i, j) ==
            \/ priority(signals[i], source_group) > priority(signals[j], source_group)
            \/ /\ priority(signals[i], source_group) = priority(signals[j], source_group)
               /\ \/ signals[i].timestamp > signals[j].timestamp
                  \/ (signals[i].timestamp = signals[j].timestamp /\ i > j)
    IN IF matching = {} THEN NoContext
       ELSE signals[CHOOSE i \in matching : \A j \in matching \ {i} : Before(i, j)]

\* a position of the account as get_positions returns it: total or size is
\* positive, cTime is the time it was opened
AccountPosition(symbol, holdSide, cTime) ==
    [symbol |-> symbol, holdSide |-> holdSide, cTime |-> cTime]

\* the answers of get_positions() to handle_first_take_profit: [] for no
\* open position or a failed request, else the open positions as listed
AccountPositions ==
    { <<>>,
      <<AccountPosition("BTCUSDT_UMCBL", "long", 1)>>,
      <<AccountPosition("BTCUSDT_UMCBL", "short", 3)>>,
      <<AccountPosition("ETHUSDT_UMCBL", "short", 2)>>,
      <<AccountPosition("BTCUSDT_UMCBL", "long", 1),
        AccountPosition("ETHUSDT_UMCBL", "short", 2)>>,
      <<AccountPosition("ETHUSDT_UMCBL", "short", 2),
        AccountPosition("BTCUSDT_UMCBL", "long", 2)>> }

\* the take-profit price of the message
FirstTakeProfitPrices == {3}

\* the symbol of a signal in the contract format of the positions
ContractSymbol(symbol) ==
    CASE symbol = "BTCUSDT" -> "BTCUSDT_UMCBL"
      [] symbol = "ETHUSDT" -> "ETHUSDT_UMCBL"
      [] OTHER -> symbol

\* the selection taking the position opened first
SelectedPosition_oldest(matched_signal, account) ==
    LET hits == {i \in DOMAIN account :
                    account[i].symbol = ContractSymbol(matched_signal.symbol)}
        First(S) == CHOOSE i \in S : \A j \in S : i <= j
        oldest == {i \in DOMAIN account :
                      \A j \in DOMAIN account : account[j].cTime >= account[i].cTime}
    IN IF matched_signal # NoContext /\ hits # {}
       THEN account[First(hits)]
       ELSE account[First(oldest)]

\* the selection of handle_first_take_profit among the positions of the
\* account (not empty): the first position with the symbol of the matched
\* signal; else the first of the positions sorted by cTime with
\* reverse=True, a sort that keeps equal keys in the order of the list
SelectedPosition(matched_signal, account) ==
    LET hits == {i \in DOMAIN account :
                    account[i].symbol = ContractSymbol(matched_signal.symbol)}
        First(S) == CHOOSE i \in S : \A j \in S : i <= j
        latest == {i \in DOMAIN account :
                      \A j \in DOMAIN account : account[j].cTime <= account[i].cTime}
    IN IF matched_signal # NoContext /\ hits # {}
       THEN account[First(hits)]
       ELSE account[First(latest)]

\* ------------------------------------------------------------------------
\* Parsers over a text
\* ------------------------------------------------------------------------
\* A text is a sequence of tokens, each token the piece of text one of the
\* regular expressions of the parsers looks for:
\*   base     "#SYM 市價多" or "#SYM 市價空"
\*   limit    "#SYM 多 5" or "#SYM 空 5"
\*   ws       white space (blank or newline)
\*   amount   "100U"
\*   tp       "第一止盈: 367", "第二止盈: 300"
\*   sl       "止损: 398"
\*   target   "目标: 120"
\*   text     any other words
Tok(kind, sym, dir, level, num) ==
    [kind |-> kind, sym |-> sym, dir |-> dir, level |-> level, num |-> num]

Base(sym, dir) == Tok("base", sym, dir, 0, 0)
Limit(sym, dir, num) == Tok("limit", sym, dir, 0, num)
Ws == Tok("ws", "", "", 0, 0)
Amount(num) == Tok("amount", "", "", 0, num)
Tp(level, num) == Tok("tp", "", "", level, num)
Sl(num) == Tok("sl", "", "", 0, num)
TargetTok(num) == Tok("target", "", "", 0, num)
Words == Tok("text", "", "", 0, 0)

\* the messages a channel sends
Lines ==
    { <<Base("TREE", "kong")>>,
      <<Base("BTC", "duo"), Ws, Amount(100)>>,
      <<Base("BTC", "duo"), Ws, Amount(100), Ws, Sl(95), Ws, TargetTok(120)>>,
      <<Base("ETH", "duo"), Tp(2, 5), Sl(3)>>,
      <<Limit("BTC", "kong", 5)>>,
      <<Tp(1, 367)>>,
      <<Tp(2, 300)>>,
      <<Tp(1, 0)>>,
      <<Sl(398)>>,
      <<Words>> }

\* '\n'.join(messages)
RECURSIVE Join(_)
Join(messages) ==
    IF messages = <<>> THEN <<>>
    ELSE IF Len(messages) = 1 THEN messages[1]
    ELSE messages[1] \o <<Ws>> \o Join(Tail(messages))

\* what a parser returns: the fields of a TradingSignal the texts decide,
\* the pattern that made it and its confidence in hundredths
Parsed(symbol, side, signal_type, amount, price, stop_loss, take_profit,
       take_profit_levels, pattern_name, confidence) ==
    [symbol |-> symbol, side |-> side, signal_type |-> signal_type,
     amount |-> amount, price |-> price, stop_loss |-> stop_loss,
     take_profit |-> take_profit, take_profit_levels |-> take_profit_levels,
     pattern_name |-> pattern_name, confidence |-> confidence]

\* None returned by a parser
NoParsed == Parsed("", "", "none", Nil, Nil, Nil, Nil, <<>>, "none", 0)

\* re.search: the place of the first token of a kind, 0 without one
FirstOf(text, kind) ==
    IF \E i \in DOMAIN text : text[i].kind = kind
    THEN CHOOSE i \in DOMAIN text :
            text[i].kind = kind /\ \A j \in 1..(i - 1) : text[j].kind # kind
    ELSE 0

KindAt(text, i) == IF i \in DOMAIN text THEN text[i].kind ELSE "end"

\* re.findall of the take-profit pattern: (level, price) of every
\* take-profit line whose price is not zero, in the order of the text
TakeProfitItems(text) == SelectSeq(text, LAMBDA t : t.kind = "tp" /\ t.num # 0)

\* list.sort(key=level): stable, the chinese numbers being 1 to 10
RECURSIVE SortFrom(_, _)
SortFrom(items, level) ==
    IF level > 10 THEN <<>>
    ELSE SelectSeq(items, LAMBDA t : t.level = level) \o SortFrom(items, level + 1)

SortByLevel(items) == SortFrom(items, 1)

PricesOf(items) == [i \in DOMAIN items |-> items[i].num]

\* OptimizedSignalParser._parse_complete_signal on the match of
\* complete_signal: after the direction both lazy gaps stay empty, so the
\* optional groups capture a take-profit and a stop-loss only where they
\* follow at once
_parse_complete_signal(text, lev) ==
    LET b == FirstOf(text, "base")
        tpAt == KindAt(text, b + 1) = "tp"
        s == IF tpAt THEN b + 2 ELSE b + 1
        slAt == KindAt(text, s) = "sl"
        group4 == IF tpAt THEN text[b + 1].num ELSE Nil
        levels == SortByLevel(TakeProfitItems(text))
    IN Parsed(_normalize_symbol(text[b].sym), SideOf(text[b].dir), "optimized.market",
              default_trade_amount, Nil,
              IF slAt THEN text[s].num ELSE Nil,
              IF (group4 = Nil \/ group4 = 0) /\ levels # <<>>
              THEN levels[1].num ELSE group4,
              PricesOf(levels), "complete_signal", 95)

\* the patterns of OptimizedSignalParser._initialize_patterns, in the order
\* of the list
OptimizedPatterns ==
    << [name |-> "basic_market_signal", confidence |-> 90],
       [name |-> "single_take_profit", confidence |-> 88],
       [name |-> "stop_loss_signal", confidence |-> 88],
       [name |-> "multi_take_profit", confidence |-> 92],
       [name |-> "complete_signal", confidence |-> 95],
       [name |-> "market_with_amount", confidence |-> 93] >>

\* two take-profit lines with nothing but white space between them
HasTwoTakeProfits(text) ==
    \E i \in DOMAIN text :
       /\ text[i].kind = "tp"
       /\ \/ KindAt(text, i + 1) = "tp"
          \/ (KindAt(text, i + 1) = "ws" /\ KindAt(text, i + 2) = "tp")

\* a base line, white space and an amount
HasBaseAmount(text) ==
    \E i \in DOMAIN text :
       text[i].kind = "base" /\ KindAt(text, i + 1) = "ws" /\ KindAt(text, i + 2) = "amount"

BaseAmountAt(text) ==
    CHOOSE i \in DOMAIN text :
       /\ text[i].kind = "base" /\ KindAt(text, i + 1) = "ws" /\ KindAt(text, i + 2) = "amount"
       /\ \A j \in 1..(i - 1) :
             ~(text[j].kind = "base" /\ KindAt(text, j + 1) = "ws"
               /\ KindAt(text, j + 2) = "amount")

\* re.search of a pattern of the optimized parser
OptimizedMatches(name, text) ==
    CASE name = "basic_market_signal" -> FirstOf(text, "base") # 0
      [] name = "single_take_profit" -> FirstOf(text, "tp") # 0
      [] name = "stop_loss_signal" -> FirstOf(text, "sl") # 0
      [] name = "multi_take_profit" -> HasTwoTakeProfits(text)
      [] name = "complete_signal" -> FirstOf(text, "base") # 0
      [] name = "market_with_amount" -> HasBaseAmount(text)
      [] OTHER -> FALSE

\* the parser of a pattern of the optimized parser, on a match
OptimizedParser(name, text, lev) ==
    CASE name = "basic_market_signal" ->
            LET b == FirstOf(text, "base")
            IN Parsed(_normalize_symbol(text[b].sym), SideOf(text[b].dir),
                      "optimized.market", default_trade_amount, Nil, Nil, Nil, <<>>,
                      name, 90)
      [] name = "complete_signal" -> _parse_complete_signal(text, lev)
      [] name = "market_with_amount" ->
            LET b == BaseAmountAt(text)
            IN Parsed(_normalize_symbol(text[b].sym), SideOf(text[b].dir),
                      "optimized.market", text[b + 2].num, Nil, Nil, Nil, <<>>, name, 93)
      [] OTHER -> NoParsed

\* what a pattern makes of a text: None without a match
OptimizedTry(name, text, lev) ==
    IF OptimizedMatches(name, text) THEN OptimizedParser(name, text, lev) ELSE NoParsed

\* sorted(patterns, key=confidence, reverse=True): stable, the highest first
RECURSIVE ByConfidence(_)
ByConfidence(patterns) ==
    IF patterns = <<>> THEN <<>>
    ELSE LET top == CHOOSE i \in DOMAIN patterns :
                       /\ \A j \in DOMAIN patterns :
                             patterns[j].confidence <= patterns[i].confidence
                       /\ \A j \in 1..(i - 1) :
                             patterns[j].confidence < patterns[i].confidence
             rest == [k \in 1..(Len(patterns) - 1) |->
                         IF k < top THEN patterns[k] ELSE patterns[k + 1]]
         IN <<patterns[top]>> \o ByConfidence(rest)

\* the loop of parse_signal in the order of the list
RECURSIVE FirstSignal_by_list(_, _, _)
FirstSignal_by_list(results, patterns, k) ==
    IF k > Len(patterns) THEN NoParsed
    ELSE IF results[patterns[k].name] # NoParsed THEN results[patterns[k].name]
    ELSE FirstSignal_by_list(results, patterns, k + 1)

\* OptimizedSignalParser.parse_signal: the patterns by descending
\* confidence, the first one whose parser returns a signal
parse_signal_sorted(text, lev) ==
    LET results == [n \in {OptimizedPatterns[i].name : i \in DOMAIN OptimizedPatterns} |->
                       OptimizedTry(n, text, lev)]
    IN FirstSignal_by_list(results, ByConfidence(OptimizedPatterns), 1)

\* the first message with a base line, 0 without one
RECURSIVE FirstBaseMessage(_, _)
FirstBaseMessage(messages, k) ==
    IF k > Len(messages) THEN 0
    ELSE IF FirstOf(messages[k], "base") # 0 THEN k
    ELSE FirstBaseMessage(messages, k + 1)

\* the stop-loss of parse_multi_message_signal: the first stop-loss line of
\* each message is read while no stop-loss other than zero has been read
RECURSIVE StopLossOf(_, _)
StopLossOf(messages, k) ==
    IF k > Len(messages) THEN 0
    ELSE LET s == FirstOf(messages[k], "sl")
         IN IF s # 0 /\ messages[k][s].num # 0 THEN messages[k][s].num
            ELSE StopLossOf(messages, k + 1)

\* OptimizedSignalParser.parse_multi_message_signal
parse_multi_message_signal(messages, lev) ==
    LET m == FirstBaseMessage(messages, 1)
        levels == SortByLevel(TakeProfitItems(Join(messages)))
        stop_loss == StopLossOf(messages, 1)
    IN IF messages = <<>> \/ m = 0 THEN NoParsed
       ELSE LET b == messages[m][FirstOf(messages[m], "base")]
            IN Parsed(_normalize_symbol(b.sym), SideOf(b.dir), "optimized.market",
                      default_trade_amount, Nil,
                      IF stop_loss # 0 THEN stop_loss ELSE Nil,
                      IF levels # <<>> THEN levels[1].num ELSE Nil,
                      PricesOf(levels), "multi_message_signal",
                      IF levels # <<>> /\ stop_loss # 0 THEN 98
                      ELSE IF levels # <<>> \/ stop_loss # 0 THEN 95 ELSE 90)

\* the patterns of SignalParser._initialize_patterns, in the order of the
\* list
SignalPatterns ==
    << [name |-> "basic_market_signal", confidence |-> 90],
       [name |-> "market_signal_with_amount", confidence |-> 95],
       [name |-> "limit_signal", confidence |-> 85],
       [name |-> "full_signal", confidence |-> 98],
       [name |-> "english_signal", confidence |-> 80],
       [name |-> "first_take_profit", confidence |-> 95] >>

\* the first token of a kind after place i, 0 without one
FirstAfter(text, kind, i) ==
    IF \E k \in DOMAIN text : k > i /\ text[k].kind = kind
    THEN CHOOSE k \in DOMAIN text :
            /\ k > i /\ text[k].kind = kind
            /\ \A j \in (i + 1)..(k - 1) : text[j].kind # kind
    ELSE 0

\* the first take-profit line of level one ("第一止盈"), 0 without one
FirstTakeProfitOne(text) ==
    IF \E i \in DOMAIN text : text[i].kind = "tp" /\ text[i].level = 1
    THEN CHOOSE i \in DOMAIN text :
            /\ text[i].kind = "tp" /\ text[i].level = 1
            /\ \A j \in 1..(i - 1) : ~(text[j].kind = "tp" /\ text[j].level = 1)
    ELSE 0

\* re.search of a pattern of SignalParser on the cleaned message (no text
\* of the messages here is written in English)
SignalMatches(name, text) ==
    CASE name = "basic_market_signal" -> FirstOf(text, "base") # 0
      [] name = "market_signal_with_amount" -> HasBaseAmount(text)
      [] name = "limit_signal" -> FirstOf(text, "limit") # 0
      [] name = "full_signal" -> FirstOf(text, "base") # 0
      [] name = "english_signal" -> FALSE
      [] name = "first_take_profit" -> FirstTakeProfitOne(text) # 0
      [] OTHER -> FALSE

\* _infer_symbol_from_message: the word after the first "#"
_infer_symbol_from_message(text) ==
    IF \E i \in DOMAIN text : text[i].kind \in {"base", "limit"}
    THEN LET i == CHOOSE i \in DOMAIN text :
                     /\ text[i].kind \in {"base", "limit"}
                     /\ \A j \in 1..(i - 1) : text[j].kind \notin {"base", "limit"}
         IN _normalize_symbol(text[i].sym)
    ELSE ""

\* the parser of a pattern of SignalParser, on a match
SignalParserOf(name, text, lev) ==
    CASE name = "basic_market_signal" ->
            LET b == text[FirstOf(text, "base")]
            IN IF ~validate_symbol(b.sym) THEN NoParsed
               ELSE Parsed(_normalize_symbol(b.sym), SideOf(b.dir), "market",
                           Nil, Nil, Nil, Nil, <<>>, name, 90)
      [] name = "market_signal_with_amount" ->
            LET i == BaseAmountAt(text)
            IN IF ~validate_symbol(text[i].sym) \/ text[i + 2].num <= 0 THEN NoParsed
               ELSE Parsed(_normalize_symbol(text[i].sym), SideOf(text[i].dir), "market",
                           text[i + 2].num, Nil, Nil, Nil, <<>>, name, 95)
      [] name = "limit_signal" ->
            LET l == text[FirstOf(text, "limit")]
            IN IF ~validate_symbol(l.sym) \/ l.num <= 0 THEN NoParsed
               ELSE Parsed(_normalize_symbol(l.sym), SideOf(l.dir), "limit",
                           Nil, l.num, Nil, Nil, <<>>, name, 85)
      [] name = "full_signal" ->
            LET i == FirstOf(text, "base")
                hasAmount == KindAt(text, i + 1) = "ws" /\ KindAt(text, i + 2) = "amount"
                after == IF hasAmount THEN i + 2 ELSE i
                s == FirstAfter(text, "sl", after)
                t == FirstAfter(text, "target", IF s # 0 THEN s ELSE after)
            IN IF ~validate_symbol(text[i].sym) THEN NoParsed
               ELSE Parsed(_normalize_symbol(text[i].sym), SideOf(text[i].dir), "market",
                           IF hasAmount THEN text[i + 2].num ELSE Nil, Nil,
                           IF s # 0 THEN text[s].num ELSE Nil,
                           IF t # 0 THEN text[t].num ELSE Nil, <<>>, name, 98)
      [] name = "first_take_profit" ->
            LET t == text[FirstTakeProfitOne(text)]
            IN IF t.num <= 0 THEN NoParsed
               ELSE Parsed(_infer_symbol_from_message(text), "buy", "first_take_profit",
                           Nil, Nil, Nil, t.num, <<>>, name, 95)
      [] OTHER -> NoParsed

\* _try_parse_with_pattern
_try_parse_with_pattern(name, text, lev) ==
    IF SignalMatches(name, text) THEN SignalParserOf(name, text, lev) ELSE NoParsed

\* the results of all patterns of SignalParser on a text
SignalResults(text, lev) ==
    [n \in {SignalPatterns[i].name : i \in DOMAIN SignalPatterns} |->
        _try_parse_with_pattern(n, text, lev)]

\* SignalParser.parse_signal over a text: the patterns in the order of the
\* list, the first one whose parser returns a signal
parse_signal_in_list_order(text, lev) ==
    FirstSignal_by_list(SignalResults(text, lev), SignalPatterns, 1)

\* no text parsed yet
IdleParse ==
    [messages |-> <<>>, done |-> {}, single |-> NoParsed, multi |-> NoParsed,
     legacy |-> NoParsed]

InitParser == parse = IdleParse

\* ------------------------------------------------------------------------
\* TradingBotGUI: the tasks of price_monitor_loop
\* ------------------------------------------------------------------------
TaskIds == 1..MaxTasks

\* a task is not created yet ("none"), created and not yet run ("ready"),
\* suspended at an await of the loop ("suspended"), cancelled with the
\* CancelledError not yet delivered ("cancelled_ready" before its first
\* run, "cancelled_suspended" at an await), or "done"; price_monitor_task
\* is the task the object holds (0: None)
NoTasks == [state |-> [i \in TaskIds |-> "none"], price_monitor_task |-> 0]

InitTasks == tasks = NoTasks

\* Task.cancel(): a task that is done is left alone
Cancel(state, id) ==
    IF id = 0 THEN state
    ELSE IF state[id] = "ready" THEN [state EXCEPT ![id] = "cancelled_ready"]
    ELSE IF state[id] = "suspended" THEN [state EXCEPT ![id] = "cancelled_suspended"]
    ELSE state

\* the tasks whose loop can still run a cycle
LiveTasks == {i \in TaskIds : tasks.state[i] \in {"ready", "suspended"}}

\* TradingBotGUI.__init__: no target, no monitor task, no signal remembered
InitGui ==
    /\ take_profit_targets = <<>>
    /\ price_monitoring_active = FALSE
    /\ mon = IdleMonitor
    /\ hist = NoHistory
    /\ recent_signals = <<>>
    /\ matched = NoSearch

Init ==
    /\ scenario \in Scenarios
    /\ default_leverage = DEFAULT_LEVERAGE
    /\ InitRisk
    /\ InitPipe
    /\ InitClient
    /\ InitGui
    /\ InitParser
    /\ InitTasks

\* ------------------------------------------------------------------------
\* RiskManager: operations
\* ------------------------------------------------------------------------
\* the wall clock moves on
Tick ==
    /\ \E t \in Times : t > now /\ now' = t
    /\ UNCHANGED <<scenario, stopped, riskVars, ret, nonRiskVars>>

\* RiskManager.check_signal_risk, _reset_daily_counters included
check_signal_risk(signal, current_balance) ==
    LET r == _reset_daily_counters(trade_count_today, daily_pnl, last_reset_date, now)
    IN /\ trade_count_today' = r[1]
       /\ daily_pnl' = r[2]
       /\ last_reset_date' = r[3]
       /\ ret' = CheckDecision(signal, current_balance, r[1], r[2], consecutive_losses,
                               last_trade_time, now, positions)
       /\ UNCHANGED <<scenario, stopped, now, consecutive_losses, positions, trade_history,
                      last_trade_time>>

\* RiskManager.add_position
add_position(signal, entry_price, size) ==
    /\ trade_count_today < MaxTradeCount
    /\ positions' = Put(positions, signal.symbol,
                        [side |-> signal.side, size |-> size,
                         entry_price |-> entry_price, current_price |-> entry_price,
                         pnl |-> 0, pnl_percentage |-> 0,
                         stop_loss |-> signal.stop_loss,
                         take_profit |-> signal.take_profit])
    /\ trade_count_today' = trade_count_today + 1
    /\ last_trade_time' = now
    /\ ret' = NoRet
    /\ UNCHANGED <<scenario, stopped, now, daily_pnl, consecutive_losses, last_reset_date, trade_history>>

\* the position after RiskManager.update_position set its price and P&L
Repriced(p, current_price) ==
    LET pnl == IF p.side = "buy"
               THEN ((current_price - p.entry_price) * p.size) \div p.entry_price
               ELSE ((p.entry_price - current_price) * p.size) \div p.entry_price
    IN [p EXCEPT !.current_price = current_price,
                 !.pnl = pnl,
                 !.pnl_percentage = (pnl * 100) \div p.size]

\* every division of update_position is exact on these inputs
ExactReprice(p, current_price) ==
    /\ p.size > 0
    /\ (Abs(current_price - p.entry_price) * p.size) % p.entry_price = 0
    /\ (Abs(current_price - p.entry_price) * p.size * 100)
           % (p.entry_price * p.size) = 0

\* RiskManager.update_position
update_position(symbol, current_price) ==
    /\ IF symbol \notin DOMAIN positions
       THEN UNCHANGED positions
       ELSE /\ ExactReprice(positions[symbol], current_price)
            /\ positions' = [positions EXCEPT
                                ![symbol] = Repriced(positions[symbol], current_price)]
    /\ ret' = NoRet
    /\ UNCHANGED <<scenario, stopped, now, daily_pnl, trade_count_today, consecutive_losses,
                   last_reset_date, trade_history, last_trade_time>>

\* close_position that leaves the loss counter alone after a gain
close_position_no_reset(symbol, close_price, reason) ==
    /\ Len(trade_history) < MaxHistory
    /\ IF symbol \notin DOMAIN positions
       THEN UNCHANGED <<positions, trade_history, daily_pnl, consecutive_losses>>
       ELSE LET p == Repriced(positions[symbol], close_price)
            IN /\ ExactReprice(positions[symbol], close_price)
               /\ trade_history' = Append(trade_history,
                      [symbol |-> symbol, side |-> p.side, size |-> p.size,
                       entry_price |-> p.entry_price, close_price |-> close_price,
                       pnl |-> p.pnl, pnl_percentage |-> p.pnl_percentage,
                       close_reason |-> reason, closed_at |-> now])
               /\ daily_pnl' = daily_pnl + p.pnl
               /\ consecutive_losses' =
                      IF p.pnl < 0 THEN consecutive_losses + 1 ELSE consecutive_losses
               /\ positions' = Del(positions, symbol)
    /\ ret' = NoRet
    /\ UNCHANGED <<scenario, stopped, now, trade_count_today, last_reset_date, last_trade_time>>

\* RiskManager.close_position
close_position(symbol, close_price, reason) ==
    /\ Len(trade_history) < MaxHistory
    /\ IF symbol \notin DOMAIN positions
       THEN UNCHANGED <<positions, trade_history, daily_pnl, consecutive_losses>>
       ELSE LET p == Repriced(positions[symbol], close_price)
            IN /\ ExactReprice(positions[symbol], close_price)
               /\ trade_history' = Append(trade_history,
                      [symbol |-> symbol, side |-> p.side, size |-> p.size,
                       entry_price |-> p.entry_price, close_price |-> close_price,
                       pnl |-> p.pnl, pnl_percentage |-> p.pnl_percentage,
                       close_reason |-> reason, closed_at |-> now])
               /\ daily_pnl' = daily_pnl + p.pnl
               /\ consecutive_losses' =
                      IF p.pnl < 0 THEN consecutive_losses + 1 ELSE 0
               /\ positions' = Del(positions, symbol)
    /\ ret' = NoRet
    /\ UNCHANGED <<scenario, stopped, now, trade_count_today, last_reset_date, last_trade_time>>

\* RiskManager.emergency_stop
emergency_stop ==
    /\ consecutive_losses' = max_consecutive_losses
    /\ last_trade_time' = now
    /\ stopped' = TRUE
    /\ ret' = NoRet
    /\ UNCHANGED <<scenario, now, daily_pnl, trade_count_today, last_reset_date,
                   positions, trade_history, nonRiskVars>>

\* RiskManager.reset_risk_state
reset_risk_state ==
    /\ consecutive_losses' = 0
    /\ daily_pnl' = 0
    /\ trade_count_today' = 0
    /\ last_trade_time' = Nil
    /\ stopped' = FALSE
    /\ ret' = NoRet
    /\ UNCHANGED <<scenario, now, last_reset_date, positions, trade_history, nonRiskVars>>

\* the positions the ledger is given: one symbol, either side, a size equal
\* to the small balance, entered at price 2 and repriced one tick away
LedgerSymbols == {"BTCUSDT"}

LedgerSizes == {100}

EntryPrices == {2}

ClosePrices == {1, 3}

RiskCheck ==
    /\ \E s \in RiskSignals, b \in Balances : check_signal_risk(s, b)
    /\ UNCHANGED nonRiskVars

RiskAdd ==
    /\ scenario = "ledger" => trade_count_today < MaxLedgerTrades
    /\ scenario = "stop" => (positions = <<>> /\ trade_history = <<>>)
    /\ \E s \in LedgerSymbols, d \in Sides, e \in EntryPrices, z \in LedgerSizes :
           add_position(Signal(s, d, "market", Nil, Nil, Nil, Nil, 20), e, z)
    /\ UNCHANGED nonRiskVars

RiskUpdate ==
    /\ scenario \in {"ledger", "stop"}
    /\ \E s \in LedgerSymbols, p \in ClosePrices : update_position(s, p)
    /\ UNCHANGED nonRiskVars

RiskClose ==
    /\ scenario \in {"ledger", "stop"}
    /\ \E s \in LedgerSymbols, p \in ClosePrices : close_position(s, p, "manual")
    /\ UNCHANGED nonRiskVars

RiskEmergencyStop == scenario \in {"day", "stop"} /\ emergency_stop

RiskReset ==
    /\ scenario \in {"day", "stop"}
    /\ scenario = "stop" => stopped
    /\ reset_risk_state

NextRisk ==
    \/ Tick
    \/ RiskCheck
    \/ RiskAdd
    \/ RiskUpdate
    \/ RiskClose
    \/ RiskEmergencyStop
    \/ RiskReset

SpecRisk == Init /\ [][NextRisk]_vars

\* the ledger of one position with emergency_stop, and reset_risk_state
\* after it
InitStop ==
    /\ scenario = "stop"
    /\ default_leverage = DEFAULT_LEVERAGE
    /\ InitRisk
    /\ InitPipe
    /\ InitClient
    /\ InitGui
    /\ InitParser
    /\ InitTasks

SpecStop == InitStop /\ [][NextRisk]_vars

\* ------------------------------------------------------------------------
\* main.py: handle_trading_signal, one step from await to await
\* ------------------------------------------------------------------------
SetHandler(h, pc, signal, outcome) ==
    handlers' = [handlers EXCEPT ![h] = [pc |-> pc, signal |-> signal,
                                         outcome |-> outcome]]

\* the opening order that execute_signal places for the signal, and the
\* time of the call
OrderCall(h, signal, accepted) ==
    [h |-> h, symbol |-> signal.symbol, side |-> signal.side, accepted |-> accepted,
     at |-> now]

\* where the handler goes after the risk check, answer ignored: on to
\* execute_signal
AfterRiskCheck_fallthrough(ok) == "executing"

\* where the handler goes after the risk check: a rejection returns
AfterRiskCheck(ok) == IF ok THEN "executing" ELSE "done"

\* TelegramMonitor._handle_new_message hands the message to the handler
\* when it is a signal; the handler parses it, stores the signal and awaits
\* the notifier
MainReceive(h, m) ==
    /\ scenario = "main"
    /\ handlers[h].pc = "idle"
    /\ LET signal == SignalParser_parse_signal(m, default_leverage)
       IN IF ~parse_trading_signal(m) \/ signal = NoSignal
          THEN /\ SetHandler(h, "done", NoSignal, "dropped")
               /\ UNCHANGED db
          ELSE /\ SetHandler(h, "await_balance", signal, "none")
               /\ db' = Put(db, h, [status |-> "pending", error_message |-> "none"])
    /\ UNCHANGED <<scenario, stopped, now, riskVars, ret, default_leverage, exchange_log, executed>>

\* get_balance returns; check_signal_risk; a rejection marks the signal
\* ignored and returns, an approval calls execute_signal
MainRiskCheck(h, balance) ==
    /\ scenario = "main"
    /\ handlers[h].pc = "await_balance"
    /\ check_signal_risk(handlers[h].signal, balance)
    /\ LET pc == AfterRiskCheck(ret'.ok)
       IN /\ SetHandler(h, pc, handlers[h].signal,
                        IF ret'.ok THEN "none" ELSE "ignored")
          /\ db' = IF ret'.ok THEN db
                   ELSE Put(db, h, [status |-> "ignored", error_message |-> ret'.reason])
          /\ executed' = IF pc = "executing"
                         THEN executed \cup {[h |-> h, signal |-> handlers[h].signal]}
                         ELSE executed
    /\ UNCHANGED <<default_leverage, exchange_log>>

\* execute_signal returns; the status becomes processed or error
MainExecReturn(h, o) ==
    /\ scenario = "main"
    /\ handlers[h].pc = "executing"
    /\ o \in ExecOutcomes(handlers[h].signal)
    /\ exchange_log' = IF o.issued
                       THEN Append(exchange_log,
                                   OrderCall(h, handlers[h].signal, o.accepted))
                       ELSE exchange_log
    /\ IF o.success
       THEN /\ handlers' = [handlers EXCEPT ![h] =
                               [pc |-> "await_notify", signal |-> @.signal,
                                outcome |-> IF o.price > 0 THEN "priced" ELSE "unpriced"]]
            /\ db' = Put(db, h, [status |-> "processed", error_message |-> db[h].error_message])
       ELSE /\ SetHandler(h, "done", handlers[h].signal, "error")
            /\ db' = Put(db, h, [status |-> "error", error_message |-> "execution"])
    /\ UNCHANGED <<scenario, stopped, now, riskVars, ret, default_leverage, executed>>

\* notify_trade_execution returns; the position is registered when the
\* order data carried a price.  The result of execute_signal has no
\* trade_amount, so that the size registered is 0
MainRegister(h) ==
    /\ scenario = "main"
    /\ handlers[h].pc = "await_notify"
    /\ IF handlers[h].outcome = "priced"
       THEN \E p \in ResponsePrices : p > 0 /\ add_position(handlers[h].signal, p, 0)
       ELSE UNCHANGED <<scenario, stopped, now, riskVars, ret>>
    /\ SetHandler(h, "done", handlers[h].signal, "processed")
    /\ UNCHANGED <<default_leverage, db, exchange_log, executed>>

\* ------------------------------------------------------------------------
\* start_trading.py: MarketOrderTradingSystem.handle_signal
\* ------------------------------------------------------------------------
\* parse, validate, await the notification
StReceive(h, m) ==
    /\ scenario = "start_trading"
    /\ handlers[h].pc = "idle"
    /\ LET signal == OptimizedSignalParser_parse_signal(m, default_leverage)
       IN IF signal = NoSignal
          THEN SetHandler(h, "done", NoSignal, "dropped")
          ELSE IF ~OptimizedSignalParser_validate_signal(signal)
          THEN SetHandler(h, "done", signal, "invalid")
          ELSE SetHandler(h, "validated", signal, "none")
    /\ UNCHANGED <<scenario, stopped, now, riskVars, ret, default_leverage, db, exchange_log, executed>>

\* the notification returns; execute_signal is called and returns
StExecute(h, o) ==
    /\ scenario = "start_trading"
    /\ handlers[h].pc = "validated"
    /\ o \in ExecOutcomes(handlers[h].signal)
    /\ executed' = executed \cup {[h |-> h, signal |-> handlers[h].signal]}
    /\ exchange_log' = IF o.issued
                       THEN Append(exchange_log,
                                   OrderCall(h, handlers[h].signal, o.accepted))
                       ELSE exchange_log
    /\ SetHandler(h, "done", handlers[h].signal,
                  IF o.success THEN "processed" ELSE "error")
    /\ UNCHANGED <<scenario, stopped, now, riskVars, ret, default_leverage, db>>

AllOutcomes == UNION {ExecOutcomes(Signal("BTCUSDT", "buy", t, Nil, Nil, Nil, Nil, 1)) :
                         t \in {"market", "none"}}

\* the handlers are numbered in the order in which their messages arrive
InArrivalOrder(h) == \A k \in HandlerIds : k < h => handlers[k].pc # "idle"

PipeReceive ==
    /\ \E h \in HandlerIds, m \in PipeMessages : InArrivalOrder(h) /\ MainReceive(h, m)
    /\ UNCHANGED <<clientVars, guiVars, parserVars, taskVars>>

PipeRiskCheck ==
    /\ \E h \in HandlerIds, b \in Balances : MainRiskCheck(h, b)
    /\ UNCHANGED <<clientVars, guiVars, parserVars, taskVars>>

PipeExecReturn ==
    /\ \E h \in HandlerIds, o \in AllOutcomes : MainExecReturn(h, o)
    /\ UNCHANGED <<clientVars, guiVars, parserVars, taskVars>>

PipeRegister ==
    /\ \E h \in HandlerIds : MainRegister(h)
    /\ UNCHANGED <<clientVars, guiVars, parserVars, taskVars>>

PipeStReceive ==
    /\ \E h \in HandlerIds, m \in PipeMessages : InArrivalOrder(h) /\ StReceive(h, m)
    /\ UNCHANGED <<clientVars, guiVars, parserVars, taskVars>>

PipeStExecute ==
    /\ \E h \in HandlerIds, o \in AllOutcomes : StExecute(h, o)
    /\ UNCHANGED <<clientVars, guiVars, parserVars, taskVars>>

\* the program has started: main.py exits when validate_config fails
InitPipeline ==
    /\ scenario \in Programs
    /\ default_leverage \in ConfigLeverages
    /\ scenario = "main" => validate_config(default_leverage)
    /\ InitRisk
    /\ InitPipe
    /\ InitClient
    /\ InitGui
    /\ InitParser
    /\ InitTasks

NextPipe ==
    \/ Tick
    \/ PipeReceive
    \/ PipeRiskCheck
    \/ PipeExecReturn
    \/ PipeRegister
    \/ PipeStReceive
    \/ PipeStExecute

SpecPipe == InitPipeline /\ [][NextPipe]_vars

\* ------------------------------------------------------------------------
\* BitgetClient.execute_signal, one step per request
\* ------------------------------------------------------------------------
\* the request in flight has returned or raised
ReqDone == req.state \in {"returned", "raised"}

\* execute_signal goes on to the request kind at position pc
Call(e, pc, kind) ==
    /\ ex' = [e EXCEPT !.pc = pc, !.requests = Append(@, kind)]
    /\ req' = NewReq(kind)

\* the except clause of execute_signal: success False
Fail(e) ==
    /\ ex' = [e EXCEPT !.pc = "done", !.result = "failure"]
    /\ req' = IdleReq

\* execute_signal returns the execution result: success True
Succeed(e) ==
    /\ ex' = [e EXCEPT !.pc = "done", !.result = "success"]
    /\ req' = IdleReq

\* the block of the automatic stop: with an order id, sleep and ask for
\* the order status
ToAutoStop(e) ==
    IF e.order THEN Call(e, "stop_status", "order_info") ELSE Succeed(e)

ExecFrame == UNCHANGED <<scenario, stopped, now, riskVars, ret, pipeVars, exchange, rl, guiVars, parserVars, taskVars>>

\* execute_signal is called: get_balance
ExecStart(signal) ==
    /\ ex.pc = "idle"
    /\ Call([ex EXCEPT !.signal = signal], "balance", "account")
    /\ ExecFrame

\* get_balance returns (0.0 when the request raised): get_symbol_info
ExecBalance(balance) ==
    /\ ex.pc = "balance" /\ ReqDone
    /\ req.state = "raised" => balance = 0
    /\ IF balance <= 0 THEN Fail(ex)
       ELSE Call([ex EXCEPT !.balance = balance], "symbol_info", "contracts")
    /\ ExecFrame

\* get_symbol_info returns (None when the request raised or the symbol is
\* not listed): get_current_price
ExecSymbolInfo(found) ==
    /\ ex.pc = "symbol_info" /\ ReqDone
    /\ req.state = "raised" => ~found
    /\ IF ~found THEN Fail(ex) ELSE Call(ex, "price", "ticker")
    /\ ExecFrame

\* get_current_price returns (None when the request raised): the order is
\* placed by place_market_order or place_limit_order, for the two signal
\* types of signal_parser.SignalType
ExecPrice(price) ==
    /\ ex.pc = "price" /\ ReqDone
    /\ req.state = "raised" => price = 0
    /\ IF price <= 0 THEN Fail(ex)
       ELSE IF ex.signal.signal_type = "market"
               \/ (ex.signal.signal_type = "limit"
                   /\ ex.signal.price # Nil /\ ex.signal.price # 0)
       THEN Call([ex EXCEPT !.current_price = price,
                            !.contract_size = contract_size(ex.signal, ex.balance, price)],
                 "place_order", "open")
       ELSE Fail(ex)
    /\ ExecFrame

\* the order request is over: an exception is raised again; with the order
\* data, the trader's stop-loss and take-profit come first
ExecPlaced ==
    /\ ex.pc = "place_order" /\ ReqDone
    /\ IF req.state = "raised" THEN Fail(ex)
       ELSE LET e == [ex EXCEPT !.order = TRUE]
            IN IF use_trader_signals_for_tp_sl
                  /\ (ex.signal.stop_loss \notin {Nil, 0}
                      \/ ex.signal.take_profit \notin {Nil, 0})
               THEN Call(e, "tpsl_status", "order_info")
               ELSE ToAutoStop(e)
    /\ ExecFrame

\* get_order_status returns (None when the request raised); for a filled
\* order the stop-loss limit order is placed, then the take-profit one.
\* Data of another shape raises outside the inner try blocks
ExecTpSlStatus(status) ==
    /\ ex.pc = "tpsl_status" /\ ReqDone
    /\ req.state = "raised" => status = "new"
    /\ IF status = "malformed" THEN Fail(ex)
       ELSE IF status # "filled" THEN ToAutoStop(ex)
       ELSE IF ex.signal.stop_loss \notin {Nil, 0} THEN Call(ex, "sl_order", "close_sl")
       ELSE IF ex.signal.take_profit \notin {Nil, 0} THEN Call(ex, "tp_order", "close_tp")
       ELSE ToAutoStop(ex)
    /\ ExecFrame

\* the stop-loss limit order is over; its exception is logged
ExecSlOrder ==
    /\ ex.pc = "sl_order" /\ ReqDone
    /\ LET e == [ex EXCEPT !.stop_loss_order = (req.state = "returned")]
       IN IF ex.signal.take_profit \notin {Nil, 0}
          THEN Call(e, "tp_order", "close_tp")
          ELSE ToAutoStop(e)
    /\ ExecFrame

\* the take-profit limit order is over; its exception is logged
ExecTpOrder ==
    /\ ex.pc = "tp_order" /\ ReqDone
    /\ ToAutoStop([ex EXCEPT !.take_profit_order = (req.state = "returned")])
    /\ ExecFrame

\* get_order_status of the automatic stop returns; for a filled order
\* set_auto_stop_loss is called.  The whole block is inside a try
ExecStopStatus(status) ==
    /\ ex.pc = "stop_status" /\ ReqDone
    /\ req.state = "raised" => status = "new"
    /\ \* fillPrice and fillSize of a market order filled in full at the
       \* ticker price
       LET filled_price == Frac(ex.current_price, 1)
           filled_quantity == ex.contract_size
       IN IF status = "filled" /\ filled_price.num > 0 /\ filled_quantity.num > 0
          THEN Call([ex EXCEPT !.stop_tried = TRUE,
                               !.filled_price = filled_price,
                               !.trigger_price =
                                   stop_loss_price(ex.signal.side, filled_price,
                                                   filled_quantity,
                                                   leverage_of(ex.signal))],
                    "stop_order", "plan")
          ELSE Succeed(ex)
    /\ ExecFrame

\* set_auto_stop_loss letting the exception of the request through
ExecStopOrder_raising ==
    /\ ex.pc = "stop_order" /\ ReqDone
    /\ IF req.state = "raised" THEN Fail(ex)
       ELSE Succeed([ex EXCEPT !.auto_stop_loss_order = TRUE])
    /\ ExecFrame

\* set_auto_stop_loss returns the order data, or None when the request
\* raised
ExecStopOrder ==
    /\ ex.pc = "stop_order" /\ ReqDone
    /\ Succeed([ex EXCEPT !.auto_stop_loss_order = (req.state = "returned")])
    /\ ExecFrame

ExecCall == \E signal \in ExecSignals : ExecStart(signal)

ExecHttp == \E resp \in Responses, carried \in BOOLEAN : HttpAttempt(resp, carried)

ExecGotBalance == \E b \in ExecBalances : ExecBalance(b)

ExecGotSymbolInfo == \E found \in BOOLEAN : ExecSymbolInfo(found)

ExecGotPrice == \E p \in TickerPrices : ExecPrice(p)

ExecGotTpSlStatus == \E st \in OrderStatuses : ExecTpSlStatus(st)

ExecGotStopStatus == \E st \in OrderStatuses : ExecStopStatus(st)

\* after execute_signal has returned success and the exchange has opened
\* the position with the size submitted, close_position_partial(symbol, 50)
\* reads the size of the position from total, else from size, and submits
\* the closing order; without a size it returns None
ExecClosePartial(field) ==
    /\ ex.pc = "done" /\ ex.result = "success"
    /\ \E i \in DOMAIN exchange : exchange[i] = "open"
    /\ LET zero == Frac(0, 1)
           total == IF field = "total" THEN ex.contract_size ELSE zero
           size == IF field = "size" THEN ex.contract_size ELSE zero
           current_size == IF total.num > 0 THEN total ELSE size
       IN ex' = [ex EXCEPT !.pc = "closed",
                           !.close_size = IF current_size.num <= 0 THEN NoClose
                                          ELSE close_size(current_size, 50)]
    /\ UNCHANGED req
    /\ ExecFrame

ExecClose == \E field \in PositionFields : ExecClosePartial(field)

InitExec ==
    /\ scenario = "execute"
    /\ default_leverage = DEFAULT_LEVERAGE
    /\ InitRisk
    /\ InitPipe
    /\ InitClient
    /\ InitGui
    /\ InitParser
    /\ InitTasks

NextExec ==
    \/ ExecCall
    \/ ExecHttp
    \/ RetryWake
    \/ ExecGotBalance
    \/ ExecGotSymbolInfo
    \/ ExecGotPrice
    \/ ExecPlaced
    \/ ExecGotTpSlStatus
    \/ ExecSlOrder
    \/ ExecTpOrder
    \/ ExecGotStopStatus
    \/ ExecStopOrder
    \/ ExecClose

SpecExec == InitExec /\ [][NextExec]_vars

\* ------------------------------------------------------------------------
\* BitgetClient._rate_limit
\* ------------------------------------------------------------------------
\* a request goes on to the network in the current second
Proceed(r, count, current_time) ==
    [r EXCEPT !.request_count = count + 1,
              !.last_request_time = current_time,
              !.passed[r.sec] = @ + 1]

RateFrame == UNCHANGED <<scenario, stopped, now, riskVars, ret, pipeVars, ex, req, exchange, guiVars, parserVars, taskVars>>

\* the wall clock reaches the next second
RateClock ==
    /\ rl.sec < MaxSecond
    /\ rl' = [rl EXCEPT !.sec = @ + 1]
    /\ RateFrame

\* a caller enters _rate_limit and runs to its end or to the sleep; the
\* sleeper keeps the clock reading it took
RateEnter ==
    /\ rl.calls < MaxRequests
    /\ LET current_time == rl.sec
           r == [rl EXCEPT !.calls = @ + 1]
       IN rl' = IF current_time = rl.last_request_time
                THEN IF rl.request_count >= rate_limit_per_second
                     THEN [r EXCEPT !.sleeping[current_time] = @ + 1]
                     ELSE Proceed(r, rl.request_count, current_time)
                ELSE Proceed(r, 0, current_time)
    /\ RateFrame

\* the sleep of a caller that entered in second s ends, in a later second:
\* the counter is set to 0, then counted up, and last_request_time is set
\* to the reading the caller took before it slept
RateWake(s) ==
    /\ rl.sleeping[s] > 0
    /\ rl.sec > s
    /\ rl' = Proceed([rl EXCEPT !.sleeping[s] = @ - 1], 0, s)
    /\ RateFrame

RateWakeAny == \E s \in Seconds : RateWake(s)

InitRate ==
    /\ scenario = "rate_limit"
    /\ default_leverage = DEFAULT_LEVERAGE
    /\ InitRisk
    /\ InitPipe
    /\ InitClient
    /\ InitGui
    /\ InitParser
    /\ InitTasks

NextRate ==
    \/ RateClock
    \/ RateEnter
    \/ RateWakeAny

SpecRate == InitRate /\ [][NextRate]_vars

\* ------------------------------------------------------------------------
\* TradingBotGUI: handle_first_take_profit and price_monitor_loop, one step
\* from await to await
\* ------------------------------------------------------------------------
MonFrame == UNCHANGED <<scenario, stopped, now, riskVars, ret, pipeVars, clientVars,
                        recent_signals, matched, parserVars, taskVars>>

\* handle_first_take_profit resumes with the positions of the account and
\* has selected one of them: the target is stored under the symbol of the
\* position, and the monitor task is started when none is running.  A task
\* that holds the value stored before under this symbol holds a stale one
HandleFirstTakeProfit(symbol, side, take_profit_price) ==
    /\ scenario = "monitor"
    /\ hist.registrations < MaxRegistrations
    /\ LET t == Target(symbol, take_profit_price, side)
           m == IF price_monitoring_active THEN mon ELSE [IdleMonitor EXCEPT !.pc = "top"]
       IN /\ take_profit_targets' = SetItem(take_profit_targets, t)
          /\ hist' = [hist EXCEPT !.registrations = @ + 1, !.registered = t]
          /\ mon' = IF m.target_info.symbol = symbol THEN [m EXCEPT !.stale = TRUE] ELSE m
    /\ price_monitoring_active' = TRUE
    /\ MonFrame

\* the first entry at or after place k that is not executed
NextActive(d, k) ==
    IF \E j \in k..Len(d) : ~d[j].executed
    THEN CHOOSE j \in k..Len(d) : ~d[j].executed /\ \A l \in k..(j - 1) : d[l].executed
    ELSE Len(d) + 1

\* the for statement asks the items iterator for its next entry, the dict
\* being d and k the place to go on from.  A dict of another size than at
\* the start of the loop raises RuntimeError, which leaves the while loop by
\* its except clause.  Executed entries are passed over; the next entry is
\* bound and its price awaited.  At the end of the dict the executed
\* entries are dropped; with none left the loop ends, else it sleeps
Advance(m, d, k) ==
    IF Len(d) # m.di_used
    THEN /\ mon' = [IdleMonitor EXCEPT !.pc = "ended", !.error = "RuntimeError"]
         /\ take_profit_targets' = d
         /\ price_monitoring_active' = FALSE
    ELSE LET j == NextActive(d, k)
         IN IF j <= Len(d)
            THEN /\ mon' = [m EXCEPT !.pc = "check", !.i = j, !.target_info = d[j],
                                     !.stale = FALSE, !.retry = 0]
                 /\ take_profit_targets' = d
                 /\ UNCHANGED price_monitoring_active
            ELSE /\ take_profit_targets' = PruneExecuted(d)
                 /\ IF PruneExecuted(d) = <<>>
                    THEN /\ mon' = [IdleMonitor EXCEPT !.pc = "ended"]
                         /\ price_monitoring_active' = FALSE
                    ELSE /\ mon' = [IdleMonitor EXCEPT !.pc = "top"]
                         /\ UNCHANGED price_monitoring_active

\* the task starts, or its sleep ends: the while condition, and the sweep
\* up to its first get_positions
MonitorWake ==
    /\ scenario = "monitor"
    /\ mon.pc = "top"
    /\ IF ~price_monitoring_active
       THEN /\ mon' = [IdleMonitor EXCEPT !.pc = "ended"]
            /\ UNCHANGED <<take_profit_targets, price_monitoring_active>>
       ELSE IF take_profit_targets = <<>>
       THEN UNCHANGED <<mon, take_profit_targets, price_monitoring_active>>
       ELSE /\ mon' = [mon EXCEPT !.pc = "sweep", !.sweep_list = take_profit_targets,
                                  !.i = 1, !.invalid = {}, !.failed = {}]
            /\ UNCHANGED <<take_profit_targets, price_monitoring_active>>
    /\ hist' = [hist EXCEPT !.sequence = <<>>, !.last_stop = NoStop]
    /\ MonFrame

\* get_positions answers in the sweep.  After the last entry of the copy
\* the invalid symbols are deleted and the for loop over the dict starts
SweepAnswer(answer) ==
    /\ scenario = "monitor"
    /\ mon.pc = "sweep"
    /\ LET t == mon.sweep_list[mon.i]
           bad == IsInvalidTarget(answer, t.price)
           invalid == IF bad THEN mon.invalid \cup {t.symbol} ELSE mon.invalid
           failed == IF answer.kind = "error" THEN mon.failed \cup {t.symbol}
                     ELSE mon.failed
           d == DelItems(take_profit_targets, invalid)
       IN /\ hist' = [hist EXCEPT
                         !.last_sweep = [answer |-> answer, target_price |-> t.price,
                                         invalid |-> bad],
                         !.removed_on_error =
                             @ \/ (mon.i = Len(mon.sweep_list) /\ failed # {})]
          /\ IF mon.i < Len(mon.sweep_list)
             THEN /\ mon' = [mon EXCEPT !.i = @ + 1, !.invalid = invalid,
                                        !.failed = failed]
                  /\ UNCHANGED <<take_profit_targets, price_monitoring_active>>
             ELSE Advance([mon EXCEPT !.sweep_list = <<>>, !.invalid = {},
                                      !.failed = {}, !.di_used = Len(d)], d, 1)
    /\ MonFrame

\* get_current_price answers: None, or the marketPrice of the position
PriceAnswer(current_price) ==
    /\ scenario = "monitor"
    /\ mon.pc = "check"
    /\ IF current_price = Nil
       THEN /\ Advance(mon, take_profit_targets, mon.i + 1)
            /\ hist' = [hist EXCEPT !.sequence = <<>>, !.last_stop = NoStop]
       ELSE LET t == mon.target_info
                go == should_execute(t.side, current_price, t.price)
            IN /\ hist' = [hist EXCEPT
                              !.last_check =
                                  [side |-> t.side, current_price |-> current_price,
                                   target_price |-> t.price, triggered |-> go],
                              !.sequence = <<>>, !.last_stop = NoStop]
               /\ IF go
                  THEN /\ mon' = [mon EXCEPT !.pc = "close"]
                       /\ UNCHANGED <<take_profit_targets, price_monitoring_active>>
                  ELSE Advance(mon, take_profit_targets, mon.i + 1)
    /\ MonFrame

\* the strategy going on to the break-even stop whatever the partial close
\* returned
ClosePartialReturn_unchecked(ok) ==
    /\ scenario = "monitor"
    /\ mon.pc = "close"
    /\ IF TRUE
       THEN /\ mon' = [mon EXCEPT !.pc = "entry"]
            /\ take_profit_targets' =
                   IF mon.stale THEN take_profit_targets
                   ELSE [take_profit_targets EXCEPT ![mon.i].closed = TRUE]
            /\ UNCHANGED price_monitoring_active
       ELSE Advance(mon, take_profit_targets, mon.i + 1)
    /\ hist' = [hist EXCEPT !.sequence =
                    Append(@, IF ok THEN "close_ok" ELSE "close_failed")]
    /\ MonFrame

\* close_position_partial(symbol, 50) returns the order, or it returns
\* None or raises and the strategy returns False
ClosePartialReturn(ok) ==
    /\ scenario = "monitor"
    /\ mon.pc = "close"
    /\ IF ok
       THEN /\ mon' = [mon EXCEPT !.pc = "entry"]
            /\ take_profit_targets' =
                   IF mon.stale THEN take_profit_targets
                   ELSE [take_profit_targets EXCEPT ![mon.i].closed = TRUE]
            /\ UNCHANGED price_monitoring_active
       ELSE Advance(mon, take_profit_targets, mon.i + 1)
    /\ hist' = [hist EXCEPT !.sequence =
                    Append(@, IF ok THEN "close_ok" ELSE "close_failed")]
    /\ MonFrame

\* the strategy has returned True: the entry the loop holds is marked
\* executed, and the loop goes on
StrategyDone ==
    Advance([mon EXCEPT !.entry_price = 0],
            IF mon.stale THEN take_profit_targets
            ELSE [take_profit_targets EXCEPT ![mon.i].executed = TRUE],
            mon.i + 1)

\* after the sleep get_positions answers: without a position or an entry
\* price the strategy returns True, with an entry price that cannot be read
\* it returns False, else it goes on to the break-even stop
EntryAnswer(answer) ==
    /\ scenario = "monitor"
    /\ mon.pc = "entry"
    /\ IF answer.kind = "malformed"
       THEN Advance(mon, take_profit_targets, mon.i + 1)
       ELSE IF answer.kind # "position" \/ answer.averageOpenPrice <= 0
       THEN StrategyDone
       ELSE /\ mon' = [mon EXCEPT !.pc = "break_even", !.retry = 0,
                                  !.entry_price = answer.averageOpenPrice]
            /\ UNCHANGED <<take_profit_targets, price_monitoring_active>>
    /\ UNCHANGED hist
    /\ MonFrame

\* set_break_even_stop_loss returns: get_positions has reported the
\* position (the close order filled or not yet) and the exchange accepted
\* the plan order, or it returned None or raised: another attempt after a
\* sleep, up to the last one
BreakEvenReturn(ok, holdSide, before, filled) ==
    /\ scenario = "monitor"
    /\ mon.pc = "break_even"
    /\ IF ~ok /\ mon.retry < break_even_max_retries - 1
       THEN /\ mon' = [mon EXCEPT !.retry = @ + 1]
            /\ UNCHANGED <<take_profit_targets, price_monitoring_active>>
       ELSE StrategyDone
    /\ hist' = [hist EXCEPT
                    !.sequence = Append(@, IF ok THEN "stop_ok" ELSE "stop_failed"),
                    !.last_stop =
                        IF ok
                        THEN LET total == IF filled THEN Remaining(before) ELSE before
                                 o == set_break_even_stop_loss(holdSide, total,
                                                               mon.entry_price)
                             IN [side |-> o.side, size |-> o.size,
                                 triggerPrice |-> o.triggerPrice,
                                 entry_price |-> mon.entry_price,
                                 holdSide |-> holdSide, before |-> before]
                        ELSE @]
    /\ MonFrame

\* stop_price_monitoring: the flag is cleared and the task cancelled, which
\* raises CancelledError at the await the task is suspended on
stop_price_monitoring ==
    /\ scenario = "monitor"
    /\ price_monitoring_active
    /\ price_monitoring_active' = FALSE
    /\ mon' = [IdleMonitor EXCEPT !.pc = "cancelled", !.at = mon.pc]
    /\ UNCHANGED <<take_profit_targets, hist>>
    /\ MonFrame

MonRegister ==
    \E symbol \in MonSymbols, side \in HoldSides, p \in TargetPrices :
        HandleFirstTakeProfit(symbol, side, p)

MonSweep == \E answer \in PositionAnswers : SweepAnswer(answer)

MonPrice == \E p \in MarketPrices \cup {Nil} : PriceAnswer(p)

MonClose == \E ok \in BOOLEAN : ClosePartialReturn(ok)

MonEntry == \E answer \in PositionAnswers : EntryAnswer(answer)

\* the exchange reports the position with the partial close filled, or
\* with the close order still open
MonBreakEven ==
    \E ok \in BOOLEAN, holdSide \in HoldSides, before \in PositionTotals,
       filled \in BOOLEAN :
        BreakEvenReturn(ok, holdSide, before, filled)

InitMonitor ==
    /\ scenario = "monitor"
    /\ default_leverage = DEFAULT_LEVERAGE
    /\ InitRisk
    /\ InitPipe
    /\ InitClient
    /\ InitGui
    /\ InitParser
    /\ InitTasks

NextMonitor ==
    \/ MonRegister
    \/ MonitorWake
    \/ MonSweep
    \/ MonPrice
    \/ MonClose
    \/ MonEntry
    \/ MonBreakEven
    \/ stop_price_monitoring

SpecMonitor == InitMonitor /\ [][NextMonitor]_vars

\* ------------------------------------------------------------------------
\* TradingBotGUI: execute_trade and handle_first_take_profit on the context
\* ------------------------------------------------------------------------
ContextFrame == UNCHANGED <<scenario, stopped, riskVars, ret, pipeVars, clientVars,
                            take_profit_targets, price_monitoring_active, mon, hist,
                            parserVars, taskVars>>

\* datetime.now() moves on
ContextClock ==
    /\ scenario = "context"
    /\ \E t \in ContextTimes : t > now /\ now' = t
    /\ UNCHANGED <<recent_signals, matched>>
    /\ ContextFrame

\* execute_trade records an opening signal of a chat
ContextAdd(symbol, source_group) ==
    /\ scenario \in {"context", "select"}
    /\ Len(recent_signals) < MaxContextSignals
    /\ recent_signals' = add_signal_to_context(recent_signals, symbol, source_group, now)
    /\ UNCHANGED <<now, matched>>
    /\ ContextFrame

\* handle_first_take_profit: the context is searched for a message of the
\* chat, get_positions answers, and with an open position the target is
\* stored under the symbol of the position selected, with its side, and the
\* monitor task is started when none is running
ContextSearch(source_group, account, take_profit_price) ==
    /\ scenario \in {"context", "select"}
    /\ matched.n < MaxSearches
    /\ LET matched_signal == find_matching_signal_for_take_profit(
                                  recent_signals, now, source_group)
       IN /\ matched' = [n |-> matched.n + 1, source_group |-> source_group,
                         result |-> matched_signal]
          /\ IF account = <<>>
             THEN UNCHANGED <<take_profit_targets, price_monitoring_active, mon>>
             ELSE LET selected_position == SelectedPosition(matched_signal, account)
                  IN /\ take_profit_targets' =
                            SetItem(take_profit_targets,
                                    Target(selected_position.symbol, take_profit_price,
                                           selected_position.holdSide))
                     /\ price_monitoring_active' = TRUE
                     /\ mon' = IF price_monitoring_active THEN mon
                               ELSE [IdleMonitor EXCEPT !.pc = "top"]
    /\ UNCHANGED <<now, recent_signals>>
    /\ UNCHANGED <<scenario, stopped, riskVars, ret, pipeVars, clientVars, hist, parserVars, taskVars>>

ContextRecord ==
    /\ scenario = "context"
    /\ \E symbol \in ContextSymbols, g \in SourceGroups : ContextAdd(symbol, g)

\* a take-profit message arrives while the account holds no position
ContextFind ==
    /\ scenario = "context"
    /\ \E g \in SourceGroups, p \in FirstTakeProfitPrices : ContextSearch(g, <<>>, p)

InitContext ==
    /\ scenario = "context"
    /\ default_leverage = DEFAULT_LEVERAGE
    /\ InitRisk
    /\ InitPipe
    /\ InitClient
    /\ InitGui
    /\ InitParser
    /\ InitTasks

NextContext ==
    \/ ContextClock
    \/ ContextRecord
    \/ ContextFind

SpecContext == InitContext /\ [][NextContext]_vars

\* ------------------------------------------------------------------------
\* TradingBotGUI: handle_first_take_profit with positions in the account,
\* the signals of the context all within the window
\* ------------------------------------------------------------------------
SelectRecord ==
    /\ scenario = "select"
    /\ \E symbol \in ContextSymbols, g \in SourceGroups : ContextAdd(symbol, g)

SelectFind ==
    /\ scenario = "select"
    /\ \E g \in SourceGroups, account \in AccountPositions, p \in FirstTakeProfitPrices :
           ContextSearch(g, account, p)

InitSelect ==
    /\ scenario = "select"
    /\ default_leverage = DEFAULT_LEVERAGE
    /\ InitRisk
    /\ InitPipe
    /\ InitClient
    /\ InitGui
    /\ InitParser
    /\ InitTasks

NextSelect ==
    \/ SelectRecord
    \/ SelectFind

SpecSelect == InitSelect /\ [][NextSelect]_vars

\* ------------------------------------------------------------------------
\* TradingBotGUI: execute_trade filling the context, the clock read at each
\* signal being later than at the one before
\* ------------------------------------------------------------------------
RingAdd(symbol, source_group) ==
    /\ scenario = "ring"
    /\ now < MaxRingAdds
    /\ recent_signals' = add_signal_to_context(recent_signals, symbol, source_group, now)
    /\ now' = now + 1
    /\ UNCHANGED matched
    /\ ContextFrame

RingRecord == \E symbol \in ContextSymbols : RingAdd(symbol, "group_a")

InitRing ==
    /\ scenario = "ring"
    /\ default_leverage = DEFAULT_LEVERAGE
    /\ InitRisk
    /\ InitPipe
    /\ InitClient
    /\ InitGui
    /\ InitParser
    /\ InitTasks

NextRing == RingRecord

SpecRing == InitRing /\ [][NextRing]_vars

\* ------------------------------------------------------------------------
\* TradingBotGUI: start_price_monitoring, stop_price_monitoring and the
\* tasks of price_monitor_loop, a cycle of the loop taken as one step
\* ------------------------------------------------------------------------
LifeFrame == UNCHANGED <<scenario, stopped, now, riskVars, ret, pipeVars, clientVars, mon, hist,
                         recent_signals, matched, parserVars>>

\* start_price_monitoring: nothing when the flag is set; else the flag is
\* set, the task the object holds is cancelled and a new one is created
StartPriceMonitoring(id) ==
    IF price_monitoring_active
    THEN UNCHANGED <<price_monitoring_active, tasks>>
    ELSE /\ tasks.state[id] = "none"
         /\ \A k \in TaskIds : k < id => tasks.state[k] # "none"
         /\ price_monitoring_active' = TRUE
         /\ tasks' = [state |-> [Cancel(tasks.state, tasks.price_monitor_task)
                                    EXCEPT ![id] = "ready"],
                      price_monitor_task |-> id]

\* handle_first_take_profit stores a target for the position selected and
\* starts the monitoring when the flag is not set
LifeRegister(symbol, side, take_profit_price) ==
    /\ scenario = "life"
    /\ take_profit_targets' = SetItem(take_profit_targets,
                                      Target(symbol, take_profit_price, side))
    /\ \E id \in TaskIds : StartPriceMonitoring(id)
    /\ LifeFrame

\* stop_price_monitoring: the flag is cleared, the task cancelled and
\* forgotten
LifeStop ==
    /\ scenario = "life"
    /\ price_monitoring_active' = FALSE
    /\ tasks' = [state |-> Cancel(tasks.state, tasks.price_monitor_task),
                 price_monitor_task |-> 0]
    /\ UNCHANGED take_profit_targets
    /\ LifeFrame

\* a task runs from its start or from an await to the next await: the
\* while condition, and with targets a cycle that leaves them active or
\* executes and drops them all.  The loop ends when the flag is clear or
\* no target is left, through the finally clause
LifeRun(id, all_executed) ==
    /\ scenario = "life"
    /\ tasks.state[id] \in {"ready", "suspended"}
    /\ IF ~price_monitoring_active
       THEN /\ tasks' = [tasks EXCEPT !.state[id] = "done"]
            /\ price_monitoring_active' = FALSE
            /\ UNCHANGED take_profit_targets
       ELSE IF take_profit_targets = <<>> \/ ~all_executed
       THEN /\ tasks' = [tasks EXCEPT !.state[id] = "suspended"]
            /\ UNCHANGED <<price_monitoring_active, take_profit_targets>>
       ELSE /\ tasks' = [tasks EXCEPT !.state[id] = "done"]
            /\ take_profit_targets' = <<>>
            /\ price_monitoring_active' = FALSE
    /\ LifeFrame

\* the CancelledError is delivered: a task that never ran ends without
\* entering the try statement; a task suspended in the loop goes through
\* the except and the finally clause, which clears the flag
LifeCancelled(id) ==
    /\ scenario = "life"
    /\ tasks.state[id] \in {"cancelled_ready", "cancelled_suspended"}
    /\ tasks' = [tasks EXCEPT !.state[id] = "done"]
    /\ price_monitoring_active' =
           IF tasks.state[id] = "cancelled_suspended" THEN FALSE
           ELSE price_monitoring_active
    /\ UNCHANGED take_profit_targets
    /\ LifeFrame

LifeTarget ==
    \E symbol \in MonSymbols, side \in HoldSides, p \in FirstTakeProfitPrices :
        LifeRegister(symbol, side, p)

LifeStep == \E id \in TaskIds, all_executed \in BOOLEAN : LifeRun(id, all_executed)

LifeCleanup == \E id \in TaskIds : LifeCancelled(id)

InitLife ==
    /\ scenario = "life"
    /\ default_leverage = DEFAULT_LEVERAGE
    /\ InitRisk
    /\ InitPipe
    /\ InitClient
    /\ InitGui
    /\ InitParser
    /\ InitTasks

NextLife ==
    \/ LifeTarget
    \/ LifeStop
    \/ LifeStep
    \/ LifeCleanup

SpecLife == InitLife /\ [][NextLife]_vars

\* ------------------------------------------------------------------------
\* Parsing the messages of a channel
\* ------------------------------------------------------------------------
ParseFrame == UNCHANGED <<scenario, stopped, now, riskVars, ret, pipeVars, clientVars, guiVars,
                          taskVars>>

\* the channel sends one more message of a signal
ParseReceive(line) ==
    /\ scenario = "parse"
    /\ parse.done = {}
    /\ Len(parse.messages) < MaxMessages
    /\ parse' = [parse EXCEPT !.messages = Append(@, line)]
    /\ ParseFrame

\* OptimizedSignalParser.parse_signal on the messages combined into one
ParseCombined ==
    /\ scenario = "parse"
    /\ parse.messages # <<>>
    /\ "single" \notin parse.done
    /\ parse' = [parse EXCEPT
                    !.single = parse_signal_sorted(Join(parse.messages), default_leverage),
                    !.done = @ \cup {"single"}]
    /\ ParseFrame

\* OptimizedSignalParser.parse_multi_message_signal on the messages
ParseCorrelated ==
    /\ scenario = "parse"
    /\ parse.messages # <<>>
    /\ "multi" \notin parse.done
    /\ parse' = [parse EXCEPT
                    !.multi = parse_multi_message_signal(parse.messages, default_leverage),
                    !.done = @ \cup {"multi"}]
    /\ ParseFrame

\* SignalParser.parse_signal on the messages combined into one
ParseLegacy ==
    /\ scenario = "parse"
    /\ parse.messages # <<>>
    /\ "legacy" \notin parse.done
    /\ parse' = [parse EXCEPT
                    !.legacy = parse_signal_in_list_order(Join(parse.messages),
                                                          default_leverage),
                    !.done = @ \cup {"legacy"}]
    /\ ParseFrame

ParseMessage == \E line \in Lines : ParseReceive(line)

InitParse ==
    /\ scenario = "parse"
    /\ now = 0
    /\ default_leverage = DEFAULT_LEVERAGE
    /\ InitRisk
    /\ InitPipe
    /\ InitClient
    /\ InitGui
    /\ InitParser
    /\ InitTasks

NextParse == ParseMessage \/ ParseCombined \/ ParseCorrelated \/ ParseLegacy

SpecParse == InitParse /\ [][NextParse]_vars

\* ------------------------------------------------------------------------
\* C1, C2: the gates of Evaluate
\* ------------------------------------------------------------------------
GateReasons == <<"balance", "trade_count", "daily_loss", "consecutive_losses",
                 "cooldown", "position_size", "same_direction">>

\* the amount gate 6 looks at: the signal's, or the derived one
GateAmount(signal, balance) ==
    IF signal.amount # Nil /\ signal.amount # 0
    THEN signal.amount
    ELSE _calculate_suggested_amount(balance, signal)

\* gate i of the specification passes, in a risk state with the counters
\* cnt and pnl, losses, last trade time ltt, ledger pos, at clock reading t
GatePasses(i, signal, balance, cnt, pnl, losses, ltt, t, pos) ==
    CASE i = 1 -> balance > 0
      [] i = 2 -> cnt < max_trades_per_day
      [] i = 3 -> pnl >= 0 - max_daily_loss
      [] i = 4 -> losses < max_consecutive_losses
      [] i = 5 -> ltt = Nil \/ t - ltt >= cooldown_period
      [] i = 6 -> GateAmount(signal, balance) <= max_position_size
      [] i = 7 -> ~(\E y \in DOMAIN pos : y = signal.symbol /\ pos[y].side = signal.side)

FailingGates(signal, balance, cnt, pnl, losses, ltt, t, pos) ==
    {i \in 1..7 : ~GatePasses(i, signal, balance, cnt, pnl, losses, ltt, t, pos)}

LowestOf(S) == CHOOSE i \in S : \A j \in S : i <= j

\* what Evaluate answers in the current state
CodeAnswer(signal, balance) ==
    LET r == _reset_daily_counters(trade_count_today, daily_pnl, last_reset_date, now)
        d == CheckDecision(signal, balance, r[1], r[2], consecutive_losses,
                           last_trade_time, now, positions)
    IN <<d.ok, d.reason>>

\* the gates that fail in the current state, the counters taken as the
\* daily reset leaves them
FailingNow(signal, balance) ==
    LET r == _reset_daily_counters(trade_count_today, daily_pnl, last_reset_date, now)
    IN FailingGates(signal, balance, r[1], r[2], consecutive_losses,
                    last_trade_time, now, positions)

\* the answer of the ordered seven-gate list
SevenGateAnswer(signal, balance) ==
    LET F == FailingNow(signal, balance)
    IN IF F = {} THEN <<TRUE, "ok">> ELSE <<FALSE, GateReasons[LowestOf(F)]>>

\* the same with the risk level as an eighth gate
EightGateAnswer(signal, balance) ==
    LET F == FailingNow(signal, balance)
    IN IF F # {} THEN <<FALSE, GateReasons[LowestOf(F)]>>
       ELSE IF RiskLevelOf(balance, positions, consecutive_losses) = "critical"
            THEN <<FALSE, "risk_level">>
       ELSE <<TRUE, "ok">>

\* C1 as claimed: in every risk state and for every signal and balance,
\* Evaluate answers exactly as the ordered seven-gate list: it rejects with
\* the reason of the lowest failing gate and approves when all seven pass
C1_SevenGatesDecide ==
    \A s \in RiskSignals, b \in Balances : CodeAnswer(s, b) = SevenGateAnswer(s, b)

\* C1 amended: Evaluate rejects with the reason of the lowest failing gate
\* of the seven; when all seven pass it approves unless the risk level of
\* the ledger is critical, and then it rejects with the risk-level reason
C1_EightGatesDecide ==
    \A s \in RiskSignals, b \in Balances : CodeAnswer(s, b) = EightGateAnswer(s, b)

\* an Evaluate that passed the seven gates was rejected on the risk level,
\* with fewer than four consecutive losses
C1_Witness ==
    /\ ret.op = "check"
    /\ ~ret.ok
    /\ ret.reason = "risk_level"
    /\ consecutive_losses < 4
    /\ trade_count_today > 0

\* a step of check_signal_risk: the only operation that returns an answer
IsCheckStep == ret'.op = "check" /\ now' = now /\ scenario' = scenario

\* the six fields of RiskState that the claim names
RiskStateFields == <<daily_pnl, trade_count_today, consecutive_losses,
                     last_trade_time, positions, trade_history>>

\* C2 as claimed: a rejected Evaluate leaves every field of RiskState
\* unchanged
C2_RejectChangesNothing ==
    [][(IsCheckStep /\ ~ret'.ok) => RiskStateFields' = RiskStateFields]_vars

\* C2 amended: a rejected Evaluate leaves the loss counter, the last trade
\* time, the ledger and the history unchanged; it leaves daily P&L and
\* trades-today unchanged when the UTC date is the date of the last reset
\* and sets both to zero otherwise; the daily reset of a repeated call
\* finds nothing to reset, so that the same call at the same clock reading
\* gives the same answer and the same state
C2_RejectResetsOnlyOnRollover ==
    [][(IsCheckStep /\ ~ret'.ok) =>
          /\ <<consecutive_losses, last_trade_time, positions, trade_history>>'
                 = <<consecutive_losses, last_trade_time, positions, trade_history>>
          /\ IF DateOf(now) = last_reset_date
             THEN <<daily_pnl, trade_count_today>>' = <<daily_pnl, trade_count_today>>
             ELSE <<daily_pnl, trade_count_today>>' = <<0, 0>>
          /\ _reset_daily_counters(trade_count_today', daily_pnl', last_reset_date', now')
                 = <<trade_count_today', daily_pnl', last_reset_date'>>]_vars

\* an Evaluate was rejected on the first call of a new UTC day, after
\* trades of the day before
C2_Witness ==
    /\ ret.op = "check"
    /\ ~ret.ok
    /\ DateOf(now) = 1
    /\ last_reset_date = 1
    /\ trade_count_today = 0
    /\ last_trade_time # Nil
    /\ DateOf(last_trade_time) = 0

\* ------------------------------------------------------------------------
\* C3, C4, C5: the message pipeline
\* ------------------------------------------------------------------------
\* the place-order calls that handler h issued
CallsOf(h) == {i \in DOMAIN exchange_log : exchange_log[i].h = h}

\* C3: of two message handlers that process signals for the same symbol and
\* the same direction, at most one has an opening order accepted by the
\* exchange (no position is closed in the pipeline)
C3_AtMostOneOpeningOrder ==
    \A i, j \in DOMAIN exchange_log :
        (/\ i # j
         /\ exchange_log[i].h # exchange_log[j].h
         /\ exchange_log[i].symbol = exchange_log[j].symbol
         /\ exchange_log[i].side = exchange_log[j].side)
        => ~(exchange_log[i].accepted /\ exchange_log[j].accepted)

\* the reasons check_signal_risk gives for a rejection
RejectReasons == {GateReasons[i] : i \in 1..7} \cup {"risk_level"}

\* C4: a step in which check_signal_risk rejects the signal of a handler
\* stores the status 'ignored' with the reason of the rejection, ends the
\* handler, and issues no call; and no handler whose signal was rejected
\* has a signal passed to execute_signal or a place-order call issued
C4_RejectedIsIgnored ==
    [][/\ \A h \in HandlerIds :
              (handlers[h].pc = "await_balance" /\ handlers'[h].pc # "await_balance"
               /\ ~ret'.ok)
              => /\ db'[h] = [status |-> "ignored", error_message |-> ret'.reason]
                 /\ ret'.reason \in RejectReasons
                 /\ handlers'[h].pc = "done"
                 /\ exchange_log' = exchange_log
                 /\ executed' = executed
       /\ \A h \in HandlerIds :
              handlers'[h].outcome = "ignored"
              => /\ db'[h].status = "ignored"
                 /\ CallsOf(h)' = {}
                 /\ ~(\E e \in executed' : e.h = h)]_vars

\* a signal was rejected by the same-direction gate and marked ignored
C4_Witness ==
    \E h \in HandlerIds :
        /\ handlers[h].outcome = "ignored"
        /\ handlers[h].pc = "done"
        /\ db[h] = [status |-> "ignored", error_message |-> "same_direction"]

\* Validate of the specification fails: leverage outside [1,125], a
\* non-positive price, or take-profit and stop-loss on the wrong side
FailsValidate(signal) ==
    \/ signal.leverage < 1 \/ signal.leverage > 125
    \/ \E x \in {signal.price, signal.stop_loss, signal.take_profit} : x # Nil /\ x <= 0
    \/ /\ signal.stop_loss # Nil
       /\ signal.take_profit # Nil
       /\ IF signal.side = "buy"
          THEN signal.take_profit <= signal.stop_loss
          ELSE signal.take_profit >= signal.stop_loss

Range(f) == {f[i] : i \in DOMAIN f}

\* the market order was accepted and the request for the automatic stop
\* raised after its last attempt
StopFailed == ex.pc = "done" /\ ex.order /\ ex.stop_tried /\ ~ex.auto_stop_loss_order

\* C6 as claimed: when the market order is accepted and every attempt to
\* place the automatic stop fails, execute_signal returns success with the
\* order and without a stop order, and the call has issued no cancel and no
\* closing order
C6_NoClosingOrderIssued ==
    StopFailed
    => /\ ex.result = "success"
       /\ "open" \in Range(exchange)
       /\ Range(ex.requests) \cap {"cancel", "close_sl", "close_tp"} = {}

\* C6 amended: when the market order is accepted and every attempt to
\* place the automatic stop fails, execute_signal returns success with the
\* order and without a stop order; the request for the stop is the last
\* request of the call, no request is a cancel, and closing limit orders
\* are issued only for the stop-loss and the take-profit of the signal,
\* before the stop is tried
C6_StopFailureKeepsOrder ==
    StopFailed
    => /\ ex.result = "success"
       /\ "open" \in Range(exchange)
       /\ ex.requests[Len(ex.requests)] = "plan"
       /\ \A i \in DOMAIN ex.requests :
              /\ ex.requests[i] # "cancel"
              /\ ex.requests[i] = "plan" => i = Len(ex.requests)
              /\ ex.requests[i] = "close_sl" => ex.signal.stop_loss \notin {Nil, 0}
              /\ ex.requests[i] = "close_tp" => ex.signal.take_profit \notin {Nil, 0}

\* the stop was tried, was not placed and did not reach the exchange, and
\* the call returned success
C6_Witness ==
    /\ StopFailed
    /\ ex.result = "success"
    /\ "plan" \notin Range(exchange)

\* C7: when execute_signal returns failure, the exchange has accepted no
\* opening order of the call
C7_FailureMeansNoOrder ==
    ex.result = "failure" => "open" \notin Range(exchange)

\* C8: a response with a non-zero API code ends the request: it is raised
\* after that one attempt, with no retry
C8_ApiErrorNotRetried ==
    \A i \in DOMAIN req.errors :
        req.errors[i] = "api_error"
        => req.state = "raised" /\ Len(req.errors) = 1 /\ req.attempt = 0

\* the HTTP attempts the request in flight has made
Attempts(r) == Len(r.errors) + IF r.state = "returned" THEN 1 ELSE 0

\* the waits grow linearly with the attempt number, and what is raised is
\* the error of the last attempt
LinearBackoff(r) ==
    /\ \A i \in DOMAIN r.slept : r.slept[i] = retry_delay * i
    /\ r.state = "raised" => r.last_exception = r.errors[Len(r.errors)]

\* C9 as claimed: a request makes at most 3 HTTP attempts, waits linearly
\* longer before each further attempt, and raises the last error
C9_AtMostThreeAttempts ==
    /\ Attempts(req) <= 3
    /\ LinearBackoff(req)

\* C9 amended: a request makes at most 4 HTTP attempts (the first and
\* max_retries more), waits retry_delay times the number of attempts made
\* before each further attempt, and raises the error of the fourth attempt
\* only after four failures
C9_AtMostFourAttempts ==
    /\ Attempts(req) <= max_retries + 1
    /\ LinearBackoff(req)
    /\ req.state = "raised" => Attempts(req) = max_retries + 1
    /\ req.state = "sleeping" => Len(req.slept) = Len(req.errors)

\* a request raised after four failed attempts and waits of 1, 2 and 3
C9_Witness ==
    /\ req.state = "raised"
    /\ Len(req.errors) = 4
    /\ req.slept = <<1, 2, 3>>

\* ------------------------------------------------------------------------
\* C10: the rate limiter
\* ------------------------------------------------------------------------
\* C10: in no wall-clock second do more than rate_limit_per_second
\* requests proceed, and a caller that found the cap reached proceeds in a
\* later second only
C10_AtMostTenPerSecond ==
    \A s \in Seconds : rl.passed[s] <= rate_limit_per_second

\* ------------------------------------------------------------------------
\* C11 - C17: take-profit targets and the price monitor
\* ------------------------------------------------------------------------
UniqueSymbols(d) == \A i, j \in DOMAIN d : d[i].symbol = d[j].symbol => i = j

\* C11: after every step there is at most one target for a symbol, and a
\* registration for a symbol that has a target keeps the number of entries
\* and puts the new price in the place of the old one
C11_OneTargetPerSymbol ==
    [][/\ UniqueSymbols(take_profit_targets')
       /\ (hist'.registrations # hist.registrations
           /\ hist'.registered.symbol \in Keys(take_profit_targets))
          => /\ Len(take_profit_targets') = Len(take_profit_targets)
             /\ take_profit_targets'[IndexOf(take_profit_targets,
                                             hist'.registered.symbol)].price
                    = hist'.registered.price]_vars

\* two registrations, no sweep yet, one entry: the second registration was
\* for the symbol of the first
C11_Witness ==
    /\ hist.registrations = 2
    /\ hist.last_sweep = NoSweep
    /\ Len(take_profit_targets) = 1
    /\ take_profit_targets[1].price = hist.registered.price

\* C12: a target whose price was fetched triggers the exit exactly when the
\* side is long and the price is at or above the target, or the side is
\* short and the price is at or below it
C12_TriggerIffReached ==
    LET c == hist.last_check
    IN c # NoCheck =>
          (c.triggered <=>
              \/ (c.side = "long" /\ ~(c.current_price < c.target_price))
              \/ (c.side = "short" /\ ~(c.current_price > c.target_price)))

\* a price equal to the target has triggered, the partial close is awaited
C12_Witness ==
    /\ hist.last_check.triggered
    /\ hist.last_check.current_price = hist.last_check.target_price
    /\ mon.pc = "close"

\* C13: when the loop has ended a cycle, no target whose partial close
\* went through is left in the target set
C13_ClosedTargetIsPruned ==
    mon.pc = "ended" => \A i \in DOMAIN take_profit_targets : ~take_profit_targets[i].closed

\* C14: the sweep removes no target for which fetching the position failed
C14_FetchFailureKeepsTarget == ~hist.removed_on_error

\* C15: the loop does not end while a target is left that is not executed
C15_LoopSurvivesErrors ==
    ~(mon.pc = "ended"
      /\ \E i \in DOMAIN take_profit_targets : ~take_profit_targets[i].executed)

\* C16: the task is not ended by a stop between the partial close and the
\* break-even stop of a target
C16_StopDoesNotAbortSequence ==
    ~(mon.pc = "cancelled" /\ mon.at \in {"close", "entry"})

\* the target is more than 200% away from the entry price, on the profit
\* side of the position
Over200(answer, target_price) ==
    \/ (answer.holdSide = "long"
        /\ target_price - answer.averageOpenPrice > 2 * answer.averageOpenPrice)
    \/ (answer.holdSide = "short"
        /\ answer.averageOpenPrice - target_price > 2 * answer.averageOpenPrice)

\* the target is not on the profit side of the entry price
NotInProfit(answer, target_price) ==
    \/ (answer.holdSide = "long" /\ target_price <= answer.averageOpenPrice)
    \/ (answer.holdSide = "short" /\ target_price >= answer.averageOpenPrice)

\* a step of the sweep
IsSweepStep ==
    /\ mon.pc = "sweep"
    /\ mon' # mon
    /\ mon'.pc # "cancelled"
    /\ hist'.registrations = hist.registrations

\* C17 as stated: the sweep finds a target invalid exactly when no position
\* is returned, the entry price is not positive, or the target is more than
\* 200% away from the entry price
C17_SweepRemovesOnlyFarTargets ==
    LET s == hist.last_sweep
    IN s # NoSweep =>
          (s.invalid <=>
              \/ s.answer.kind # "position"
              \/ s.answer.averageOpenPrice <= 0
              \/ Over200(s.answer, s.target_price))

\* C17: the sweep finds a target invalid exactly when no position is
\* returned (none held, or the fetch failed), the entry price cannot be read
\* or is not positive, the target is not on the profit side of the entry price, or it
\* is more than 200% away from it; the symbols found invalid are deleted at
\* the end of the sweep and every other entry is left as it is (an executed
\* entry may be dropped by the pass over the targets that follows the sweep)
C17_SweepRemovesInvalid ==
    [][IsSweepStep =>
          LET s == hist'.last_sweep
              symbol == mon.sweep_list[mon.i].symbol
              invalid == IF s.invalid THEN mon.invalid \cup {symbol} ELSE mon.invalid
              last == mon.i = Len(mon.sweep_list)
          IN /\ s.target_price = mon.sweep_list[mon.i].price
             /\ s.invalid <=>
                   \/ s.answer.kind # "position"
                   \/ s.answer.averageOpenPrice <= 0
                   \/ NotInProfit(s.answer, s.target_price)
                   \/ Over200(s.answer, s.target_price)
             /\ \A i \in DOMAIN take_profit_targets :
                   LET t == take_profit_targets[i]
                   IN IF last /\ t.symbol \in invalid
                      THEN t.symbol \notin Keys(take_profit_targets')
                      ELSE \/ \E j \in DOMAIN take_profit_targets' :
                                 take_profit_targets'[j] = t
                           \/ (last /\ t.executed)]_vars

\* a long position entered at 4 with a target of 3: not far, not in profit,
\* found invalid
C17_Witness ==
    /\ hist.last_sweep.invalid
    /\ hist.last_sweep.answer.kind = "position"
    /\ hist.last_sweep.answer.averageOpenPrice > 0
    /\ ~Over200(hist.last_sweep.answer, hist.last_sweep.target_price)
    /\ mon.pc = "ended"
    /\ take_profit_targets = <<>>

\* ------------------------------------------------------------------------
\* C19: order of processing
\* ------------------------------------------------------------------------
\* C19: the opening orders reach the exchange in the order in which their
\* messages arrived
C19_OrdersInArrivalOrder ==
    \A i, j \in DOMAIN exchange_log :
        i < j => exchange_log[i].h < exchange_log[j].h

\* ------------------------------------------------------------------------
\* C18: the context match of a take-profit message
\* ------------------------------------------------------------------------
\* the entries of the context not older than the window
InWindow == {i \in DOMAIN recent_signals : now - recent_signals[i].timestamp < context_window}

\* entry j is to be chosen rather than entry i for a message of group g
Preferred(j, i, g) ==
    LET same(k) == recent_signals[k].source_group = g
    IN \/ (same(j) /\ ~same(i))
       \/ ((same(j) <=> same(i))
           /\ recent_signals[j].timestamp > recent_signals[i].timestamp)

\* C18: a search answers with no match exactly when no entry of the context
\* is less than 5 minutes old; else it answers with an entry less than 5
\* minutes old to which no other such entry is preferred, entries of the
\* same group going before the others and later ones before earlier ones
C18_ContextMatch ==
    [][matched'.n # matched.n =>
          LET r == matched'.result
              g == matched'.source_group
          IN /\ (r = NoContext) <=> (InWindow = {})
             /\ InWindow # {} =>
                   \E i \in InWindow :
                       /\ recent_signals[i] = r
                       /\ \A j \in InWindow : ~Preferred(j, i, g)]_vars

\* the answer is an entry of the group of the message although an entry of
\* another group is later, and an entry out of the window was passed over
C18_Witness ==
    /\ matched.n > 0
    /\ matched.result.source_group = matched.source_group
    /\ \E j \in InWindow :
          /\ recent_signals[j].source_group # matched.source_group
          /\ recent_signals[j].timestamp > matched.result.timestamp
    /\ \E j \in DOMAIN recent_signals : j \notin InWindow

\* ------------------------------------------------------------------------
\* C20: the contract size
\* ------------------------------------------------------------------------
\* the margin the signal asks for
MarginAsked(signal) ==
    IF signal.amount \in {Nil, 0} THEN default_trade_amount ELSE signal.amount

\* C20: the size submitted with the opening order, times price, equals the
\* margin asked for, capped to the balance, times leverage; with balance
\* 50, margin 5, leverage 10 and price 100 the size is 0.5, and the partial
\* close of 50% that follows submits 0.25
C20_ContractSize ==
    ex.contract_size # NoSize =>
        /\ ex.contract_size.num * ex.current_price
              = Min(MarginAsked(ex.signal), ex.balance) * ex.signal.leverage
                * ex.contract_size.den
        /\ (ex.balance = 50 /\ ex.signal.amount = 5 /\ ex.signal.leverage = 10
            /\ ex.current_price = 100)
           => /\ 2 * ex.contract_size.num = ex.contract_size.den
              /\ ex.close_size \in {NoClose, Decimal8(0, 25000000)}

\* the scenario of the claim has run up to the partial close
C20_Witness ==
    /\ ex.balance = 50 /\ ex.signal.amount = 5 /\ ex.signal.leverage = 10
    /\ ex.current_price = 100
    /\ ex.pc = "closed"
    /\ ex.close_size = Decimal8(0, 25000000)


\* ------------------------------------------------------------------------
\* C21, C22: the parsers
\* ------------------------------------------------------------------------
\* a base line, then take-profit lines and stop-loss lines, one a message
IsCorrelatedInput(messages) ==
    /\ Len(messages) >= 2
    /\ Len(messages[1]) = 1 /\ messages[1][1].kind = "base"
    /\ \A k \in 2..Len(messages) :
          Len(messages[k]) = 1 /\ messages[k][1].kind \in {"tp", "sl"}

\* C21: on a base line, take-profit lines and a stop-loss line sent as
\* separate messages, parse_multi_message_signal yields the symbol, side,
\* primary take-profit and stop-loss that parse_signal yields on the one
\* message that combines them
C21_CorrelatedEqualsCombined ==
    ({"single", "multi"} \subseteq parse.done /\ IsCorrelatedInput(parse.messages))
        => /\ parse.multi.symbol = parse.single.symbol
           /\ parse.multi.side = parse.single.side
           /\ parse.multi.take_profit = parse.single.take_profit
           /\ parse.multi.stop_loss = parse.single.stop_loss

\* the signal of the pattern of the highest confidence among the patterns
\* of SignalParser that make a signal of the text
HighestConfidenceSignal(text, lev) ==
    FirstSignal_by_list(SignalResults(text, lev), ByConfidence(SignalPatterns), 1)

\* C22: the signal parse_signal returns is the one of the pattern of the
\* highest confidence among those that match
C22_HighestConfidenceWins ==
    "legacy" \in parse.done
        => parse.legacy = HighestConfidenceSignal(Join(parse.messages), default_leverage)

\* ------------------------------------------------------------------------
\* C23: closing a position of the ledger
\* ------------------------------------------------------------------------
\* the P&L of a position at a price: the move of the price in the direction
\* of the position, on the size, relative to the entry price
RealizedPnl(p, price) ==
    IF p.side = "buy"
    THEN ((price - p.entry_price) * p.size) \div p.entry_price
    ELSE ((p.entry_price - price) * p.size) \div p.entry_price

\* what the claim says of a close of symbol s at price c
ClosePost(s, c) ==
    IF s \in DOMAIN positions
    THEN LET pnl == RealizedPnl(positions[s], c)
             n == Len(trade_history)
         IN /\ DOMAIN positions' = DOMAIN positions \ {s}
            /\ \A o \in DOMAIN positions' : positions'[o] = positions[o]
            /\ Len(trade_history') = n + 1
            /\ \A i \in 1..n : trade_history'[i] = trade_history[i]
            /\ trade_history'[n + 1].symbol = s
            /\ trade_history'[n + 1].close_price = c
            /\ trade_history'[n + 1].pnl = pnl
            /\ daily_pnl' = daily_pnl + pnl
            /\ consecutive_losses' = IF pnl < 0 THEN consecutive_losses + 1 ELSE 0
            /\ <<trade_count_today, last_trade_time, last_reset_date>>'
                   = <<trade_count_today, last_trade_time, last_reset_date>>
    ELSE riskVars' = riskVars

\* C23: close_position on a symbol of the ledger removes the position,
\* appends one record to the trade history, adds the P&L of the position at
\* the close price to the daily P&L, and sets the loss counter to one more
\* after a loss and to zero otherwise; on a symbol that is not in the ledger
\* it changes nothing
C23_CloseFinalizes ==
    [][\A s \in LedgerSymbols, c \in ClosePrices :
          close_position(s, c, "manual") => ClosePost(s, c)]_vars

\* a gain was closed after a loss: the history holds both, the counter is
\* back at zero and the ledger is empty
C23_Witness ==
    /\ Len(trade_history) = 2
    /\ trade_history[1].pnl < 0
    /\ trade_history[2].pnl > 0
    /\ daily_pnl = trade_history[1].pnl + trade_history[2].pnl
    /\ consecutive_losses = 0
    /\ positions = <<>>

\* ------------------------------------------------------------------------
\* C24, C25: the calls of a triggered target
\* ------------------------------------------------------------------------
StopEvents == {"stop_ok", "stop_failed"}

\* the calls of one run of the strategy, as the claim orders them
SequenceInOrder(q) ==
    /\ q # <<>> => q[1] \in {"close_ok", "close_failed"}
    /\ \A i \in DOMAIN q : i > 1 => (q[i] \in StopEvents /\ q[1] = "close_ok")
    /\ Cardinality({i \in DOMAIN q : q[i] \in StopEvents}) <= 3
    /\ \A i \in DOMAIN q : q[i] = "stop_ok" => i = Len(q)

\* C24: a triggered target has close_position_partial(symbol, 50) called
\* first; set_break_even_stop_loss is called only after that call
\* succeeded, at most 3 times and not again after its first success; when
\* the partial close fails no break-even stop is set and the target stays
\* in the set, not executed
C24_CloseThenBreakEven ==
    [][/\ SequenceInOrder(hist'.sequence)
       /\ (mon.pc = "close" /\ hist'.sequence = <<"close_failed">>)
             => \E i \in DOMAIN take_profit_targets' :
                   /\ take_profit_targets'[i].symbol = mon.target_info.symbol
                   /\ ~take_profit_targets'[i].executed]_vars

\* the partial close succeeded and the break-even stop failed three times
C24_Witness ==
    hist.sequence = <<"close_ok", "stop_failed", "stop_failed", "stop_failed">>

\* C25: the break-even stop is a trigger order at the entry price of the
\* position, on the closing side, for the size that is left after the
\* partial close
C25_BreakEvenForRemainingSize ==
    LET o == hist.last_stop
    IN o # NoStop =>
          /\ o.triggerPrice = o.entry_price
          /\ o.side = (IF o.holdSide = "long" THEN "close_long" ELSE "close_short")
          /\ o.size = Remaining(o.before)

\* ------------------------------------------------------------------------
\* C26: retries of the automatic stop
\* ------------------------------------------------------------------------
\* the calls of set_auto_stop_loss that execute_signal has made
StopCalls == Cardinality({i \in DOMAIN ex.requests : ex.requests[i] = "plan"})

\* C26 as claimed: the request that places the automatic stop is retried up
\* to 3 times, 2 seconds after each failed attempt, before the call gives
\* up and returns without the stop
C26_ThreeRetriesTwoSeconds ==
    req.kind = "plan"
    => /\ Attempts(req) <= 4
       /\ \A i \in DOMAIN req.slept : req.slept[i] = 2
       /\ req.state = "raised" => Attempts(req) = 4

\* C26 amended: execute_signal calls set_auto_stop_loss once; its request
\* is retried by retry_async after every exception, up to max_retries times
\* and after retry_delay times the number of attempts made (1, 2 and 3
\* seconds); after the fourth failure execute_signal returns success
\* without the stop
C26_StopRetriedByRequestLayer ==
    /\ StopCalls <= 1
    /\ req.kind = "plan"
       => /\ Attempts(req) <= max_retries + 1
          /\ \A i \in DOMAIN req.slept : req.slept[i] = retry_delay * i
          /\ req.state = "raised" => Attempts(req) = max_retries + 1
    /\ (ex.pc = "done" /\ ex.stop_tried) => ex.result = "success"

\* the request of the stop has raised after four attempts and waits of 1,
\* 2 and 3 seconds, in the one call of set_auto_stop_loss
C26_Witness ==
    /\ ex.pc = "stop_order"
    /\ StopCalls = 1
    /\ req.kind = "plan"
    /\ req.state = "raised"
    /\ Attempts(req) = max_retries + 1
    /\ req.slept = <<1, 2, 3>>

\* ------------------------------------------------------------------------
\* C27, C28: the pipeline and the ledger
\* ------------------------------------------------------------------------
\* C27: in main.py, between two opening orders that the exchange accepted
\* at least the cooldown period elapses
C27_CooldownBetweenOrders ==
    scenario = "main"
    => \A i, j \in DOMAIN exchange_log :
           (i < j /\ exchange_log[i].accepted /\ exchange_log[j].accepted)
           => exchange_log[j].at - exchange_log[i].at >= cooldown_period

\* C28: when the handler of main.py ends with a signal executed
\* successfully, the ledger holds a position for the symbol of the signal
\* with the side and a positive size and entry price, one more trade is
\* counted today and the last trade time is the time of the registration
C28_ExecutedIsRegistered ==
    [][\A h \in HandlerIds :
          (/\ scenario = "main"
           /\ handlers[h].pc = "await_notify"
           /\ handlers'[h].pc = "done")
          => LET signal == handlers[h].signal
             IN /\ signal.symbol \in DOMAIN positions'
                /\ positions'[signal.symbol].side = signal.side
                /\ positions'[signal.symbol].size > 0
                /\ positions'[signal.symbol].entry_price > 0
                /\ trade_count_today' = trade_count_today + 1
                /\ last_trade_time' = now]_vars

\* ------------------------------------------------------------------------
\* C29: the daily figures at an evaluation
\* ------------------------------------------------------------------------
\* the P&L of the positions closed on date d, from the records of the
\* trade history
PnlClosedOn(d) ==
    LET today == {i \in DOMAIN trade_history : DateOf(trade_history[i].closed_at) = d}
    IN SumOver(today, [i \in today |-> trade_history[i].pnl])

\* C29: the daily P&L that check_signal_risk compares with the daily loss
\* limit is the P&L of the positions closed on the current UTC date, also
\* when a close is the first operation of the new day
C29_DailyPnlCoversToday ==
    [][(/\ scenario = "ledger"
        /\ \E s \in RiskSignals, b \in Balances : check_signal_risk(s, b))
       => daily_pnl' = PnlClosedOn(DateOf(now))]_vars

\* ------------------------------------------------------------------------
\* C30: the position a take-profit target is registered against
\* ------------------------------------------------------------------------
\* position i of the account is the one the claim names: that of the symbol
\* the context resolved when such a position is open, else one opened
\* latest
IsClaimedPosition(account, i, resolved) ==
    IF resolved # NoContext
       /\ \E j \in DOMAIN account : account[j].symbol = ContractSymbol(resolved.symbol)
    THEN account[i].symbol = ContractSymbol(resolved.symbol)
    ELSE \A j \in DOMAIN account : account[j].cTime <= account[i].cTime

\* the dict d with the value of one more key set, the other values as in c
SetsOnly(c, d, symbol) ==
    /\ Keys(d) = Keys(c) \cup {symbol}
    /\ \A k \in Keys(c) \ {symbol} : d[IndexOf(d, k)] = c[IndexOf(c, k)]

C31_AmountWithinBalance ==
    [][\A s \in RiskSignals, b \in Balances :
          (check_signal_risk(s, b) /\ ret'.amount # Nil)
          => /\ ret'.amount <= b
             /\ (s.amount = Nil \/ s.amount = 0)
                   => ret'.amount <= (b * risk_percentage) \div 100]_vars

\* ------------------------------------------------------------------------
\* C32: the size and the content of the context
\* ------------------------------------------------------------------------
\* C32: after every signal the context holds at most max_context_messages
\* entries; they are the entries added last, in the order in which they
\* were added, each as it was added
C32_ContextKeepsLatest ==
    [][scenario = "ring" =>
          LET r == recent_signals'
              n == Len(r)
          IN /\ n <= max_context_messages
             /\ n = Min(now', max_context_messages)
             /\ \A i \in 1..n : r[i].timestamp = now' - n + i - 1
             /\ \A i \in 1..(n - 1) :
                    \E j \in DOMAIN recent_signals : recent_signals[j] = r[i]]_vars

\* twelve signals were added: the context holds the last ten
C32_Witness ==
    /\ scenario = "ring"
    /\ now = 12
    /\ Len(recent_signals) = max_context_messages
    /\ recent_signals[1].timestamp = 2
    /\ recent_signals[max_context_messages].timestamp = 11

\* ------------------------------------------------------------------------
\* C33: the monitor loops and the flag
\* ------------------------------------------------------------------------
\* C33: at most one monitor loop is live, and price_monitoring_active is
\* set exactly when one is
C33_OneLoopAndFlag ==
    scenario = "life"
    => /\ Cardinality(LiveTasks) <= 1
       /\ price_monitoring_active <=> LiveTasks # {}

\* ------------------------------------------------------------------------
\* C34: one partial close for a target
\* ------------------------------------------------------------------------
\* C34: the loop does not trigger a target whose partial close has gone
\* through in an earlier run of the strategy
C34_ClosedTargetNotTriggeredAgain ==
    [][(mon.pc = "check" /\ mon'.pc = "close") => ~mon.target_info.closed]_vars

\* ------------------------------------------------------------------------
\* C35: positions registered, open and closed
\* ------------------------------------------------------------------------
\* a balance ten times the size of the positions of the ledger
LedgerBalances == {1000}

\* check_signal_risk would approve the signal now, for some balance
Approvable(signal) ==
    \E b \in Balances \cup LedgerBalances :
        LET r == _reset_daily_counters(trade_count_today, daily_pnl, last_reset_date, now)
        IN CheckDecision(signal, b, r[1], r[2], consecutive_losses, last_trade_time,
                         now, positions).ok

\* positions that are open or in the trade history
Accounted(pos, history) == Cardinality(DOMAIN pos) + Len(history)

\* C35: every registration of an approved signal adds one to the positions
\* that are open or in the trade history, so that a position leaves the
\* ledger only into the history
C35_RegisteredIsOpenOrClosed ==
    [][\A s \in LedgerSymbols, d \in Sides, e \in EntryPrices, z \in LedgerSizes :
          LET signal == Signal(s, d, "market", Nil, Nil, Nil, Nil, 20)
          IN (scenario = "ledger" /\ Approvable(signal) /\ add_position(signal, e, z))
             => Accounted(positions', trade_history')
                    = Accounted(positions, trade_history) + 1]_vars

\* ------------------------------------------------------------------------
\* C36: the emergency stop
\* ------------------------------------------------------------------------
\* C36: from emergency_stop to reset_risk_state every check_signal_risk
\* rejects
C36_StoppedRejects ==
    (stopped /\ ret.op = "check") => ~ret.ok

\* C37: the stop price of the automatic fixed-loss stop that execute_signal
\* hands to set_auto_stop_loss is strictly positive, below the fill price
\* for a buy and above it for a sell
C37_StopPricePositive ==
    (ex.stop_tried /\ ex.pc = "stop_order")
        => /\ ex.trigger_price.num > 0
           /\ ex.signal.side = "buy" => FracLess(ex.trigger_price, ex.filled_price)
           /\ ex.signal.side = "sell" => FracLess(ex.filled_price, ex.trigger_price)

\* the opening orders that the exchange has accepted
OpeningOrders == {i \in DOMAIN exchange : exchange[i] = "open"}

\* C38: all HTTP attempts of one place-order call carry the same
\* clientOrderId, and the exchange holds at most one opening order of one
\* execute_signal, also after an attempt whose response was lost
C38_OneIdOneOrder ==
    /\ \A i, j \in DOMAIN req.sent : req.sent[i] = req.sent[j]
    /\ Cardinality(OpeningOrders) <= 1

\* the opening order was retried after an attempt without response, and the
\* exchange has accepted it
C38_Witness ==
    /\ req.kind = "open" /\ req.state = "returned" /\ req.accepted
    /\ Len(req.sent) >= 2 /\ req.errors[1] = "timeout"
    /\ Cardinality(OpeningOrders) = 1

====
